---- MODULE Spec2Model ----
(***************************************************************************)
(* Fine-tuning pipeline for tool-calling models.                           *)
(*                                                                         *)
(*  - run_pipeline.py            the pipeline orchestrator (Spec)          *)
(*  - export_and_test_onnx.py    the ONNX export script, run by the        *)
(*                               "Export ONNX" stage                       *)
(*  - export_mlc.py              the MLC export script, run by the         *)
(*                               "Export MLC" stage                        *)
(*  - generate_training_data.py  the dataset builder and the schema        *)
(*                               encoder (SpecData)                        *)
(*                                                                         *)
(* A path is a sequence of path components; a text is a sequence of        *)
(* tokens (grammar markers and free-text values).                          *)
(***************************************************************************)
EXTENDS Integers, Sequences, FiniteSets, TLC

VARIABLES
    \* ---- run_pipeline.py ----
    args,        \* parsed command line plus the derived paths
    pc,          \* position of main: "loop" | "done"
    idx,         \* index into steps of the stage the for loop is at
    status,      \* stage index -> Pending | Running | Succeeded | Failed | Skipped
    invoked,     \* stage indexes whose step function was called, in order
    spawns,      \* stage indexes for which subprocess.run was issued, in order
    cmds,        \* stage index -> the command line built by the step function
    proc,        \* the child process of run_cmd: "none" | "running" | "exited"
    rc,          \* returncode of the child process
    exit_code,   \* return value of main (NotExited while it runs)
    failed_at,   \* name printed by "Pipeline failed at:" ("" if none)
    summary,     \* the "Outputs:" lines printed at the end: label -> path
    art,         \* filesystem: path -> who wrote the directory last
    \* ---- export_and_test_onnx.py ----
    xargs,       \* parsed command line of the export script
    xpc,         \* position in main of the export script
    xexit,       \* exit code of the export script
    xlog,        \* sub-steps invoked by the export script, in order
    xres,        \* sub-step name -> "none" | "pass" | "fail"
    xon,         \* sub-step name -> the directory it was called on
    final_model_path,
    \* ---- export_mlc.py ----
    margs,       \* parsed command line of the MLC script
    mpc,         \* position in main of the MLC script
    mexit,       \* exit code of the MLC script
    mlog,        \* external commands issued by the MLC script, in order
    mres,        \* command -> "none" | "exit 0" | "exit non-zero" | "no emcc"
    \* ---- generate_training_data.py ----
    dargs,       \* parsed command line and the content of the input files
    dpc,         \* position in main of the dataset builder
    dexit,       \* exit code of the dataset builder
    dk,          \* index of the next example in the generate loop
    training_data,
    train_data,
    valid_data,
    dfiles,      \* the output directory and the two output files
    last_sample, \* what generate_training_sample returned last
    dtools,      \* main's local tools
    dexamples,   \* main's local examples
    \* a caller of one function of a script on its own
    epc,         \* where the caller is
    ecall,       \* the function called and its arguments
    eret,        \* what the call returned or raised
    efs          \* the files of the directory the function works on

ovars == <<args, pc, idx, status, invoked, spawns, cmds, proc, rc, exit_code,
           failed_at, summary, art>>
xvars == <<xargs, xpc, xexit, xlog, xres, xon, final_model_path>>
mvars == <<margs, mpc, mexit, mlog, mres>>
dvars == <<dargs, dpc, dexit, dk, training_data, train_data, valid_data,
           dfiles, last_sample, dtools, dexamples>>
evars == <<epc, ecall, eret, efs>>
vars == <<ovars, xvars, mvars, dvars, evars>>

(***************************************************************************)
(* Bounds                                                                  *)
(***************************************************************************)
\* exit codes a child process may return: 0..MaxExitCode
MaxExitCode == 2

NotExited == 0 - 1
\* number of occurrences of x in the sequence s
Count(x, s) == Cardinality({j \in 1..Len(s) : s[j] = x})
ExitCodes == 0..MaxExitCode

(***************************************************************************)
(* Paths                                                                   *)
(***************************************************************************)
\* pathlib's "/" with a relative right operand
Join(p, c) == Append(p, c)
\* Path(f"{p}-{s}")
WithSuffix(p, s) == [p EXCEPT ![Len(p)] = p[Len(p)] \o "-" \o s]
IsPrefix(p, q) == Len(p) <= Len(q) /\ SubSeq(q, 1, Len(p)) = p

\* Path(__file__).parent.parent
base_dir == <<"fine-tune">>
\* values of --output-dir ("working" is the default)
OutputDirs == {<<"working">>, <<"deploy", "out">>}

\* main, "Set up paths": the parsed command line with the derived paths
SetUpPaths(parsed) ==
    [skip_data |-> parsed.skip_data,
     skip_training |-> parsed.skip_training,
     skip_tests |-> parsed.skip_tests,
     skip_onnx |-> parsed.skip_onnx,
     skip_mlc |-> parsed.skip_mlc,
     quantize |-> parsed.quantize,
     compile_mlc |-> parsed.compile_mlc,
     mlc_quant |-> parsed.mlc_quant,
     output_dir |-> parsed.output_dir,
     base_dir |-> base_dir,
     data_dir |-> Join(base_dir, "training-data"),
     adapter_dir |-> Join(Join(base_dir, "training-output"), "adapters"),
     fused_dir |-> Join(parsed.output_dir, "fused-model"),
     onnx_dir |-> Join(parsed.output_dir, "onnx-model"),
     mlc_dir |-> Join(parsed.output_dir, "mlc-model")]

\* the command lines main may be given (argparse)
ParsedArgs ==
    [skip_data : BOOLEAN, skip_training : BOOLEAN, skip_tests : BOOLEAN,
     skip_onnx : BOOLEAN, skip_mlc : BOOLEAN, quantize : BOOLEAN,
     compile_mlc : BOOLEAN, mlc_quant : {"q0f16"}, output_dir : OutputDirs]

QuantizeTypes == {"int8", "fp16", "q4", "q4-webgpu"}

\* every directory of the model's filesystem for a run with arguments a
ArtPaths(a) ==
    {a.data_dir, a.adapter_dir, a.fused_dir, a.onnx_dir, a.mlc_dir}
        \cup {WithSuffix(a.onnx_dir, t) : t \in QuantizeTypes}

\* the directories an earlier run leaves behind, in the order it makes them
PreOrder(a) ==
    <<a.data_dir, a.adapter_dir, a.fused_dir, a.onnx_dir,
      WithSuffix(a.onnx_dir, "fp16"), a.mlc_dir>>

Absent == "absent"
PreExisting == "pre-existing"

\* the filesystem after an earlier run that got through its first k outputs
PreRunFs(a, k) ==
    [p \in ArtPaths(a) |->
        IF \E j \in 1..k : PreOrder(a)[j] = p THEN PreExisting ELSE Absent]

exists(p) == p \in DOMAIN art /\ art[p] # Absent

(***************************************************************************)
(* run_pipeline.py: the step functions                                     *)
(***************************************************************************)
StageNames ==
    <<"Generate Data", "Train Adapters", "Test Adapters", "Fuse Model",
      "Test Fused", "Export ONNX", "Export MLC">>
NumStages == Len(StageNames)
Stages == 1..NumStages

NoCmd == [prog |-> "none"]

\* the command line each step function builds
step_generate_data(a) ==
    [prog |-> "python/generate_training_data.py", cwd |-> a.base_dir,
     tools_file |-> <<"examples", "tool-definitions">>,
     examples_file |-> <<"examples", "training-examples.json">>,
     output_dir |-> a.data_dir]

\* step_train reading the training data from under --output-dir
step_train_OutputDirData(a) ==
    [prog |-> "mlx_lm lora", cwd |-> a.base_dir,
     data |-> Join(a.output_dir, "training-data"),
     adapter_path |-> a.adapter_dir]

step_train(a) ==
    [prog |-> "mlx_lm lora", cwd |-> a.base_dir,
     data |-> a.data_dir, adapter_path |-> a.adapter_dir]

step_test_adapters(a) ==
    [prog |-> "test_code", cwd |-> a.base_dir, load |-> a.adapter_dir]

step_fuse(a) ==
    [prog |-> "mlx_lm fuse", cwd |-> a.base_dir,
     adapter_path |-> a.adapter_dir, save_path |-> a.fused_dir]

step_test_fused(a) ==
    [prog |-> "test_code", cwd |-> a.base_dir, load |-> a.fused_dir]

step_export_onnx(a) ==
    [prog |-> "python/export_and_test_onnx.py", cwd |-> a.base_dir,
     input |-> a.fused_dir, output |-> a.onnx_dir,
     flags |-> (IF a.quantize THEN {"--quantize"} ELSE {})
                  \cup {"--prepare-browser"},
     quantize_type |-> IF a.quantize THEN "fp16" ELSE "default"]

step_export_mlc(a) ==
    [prog |-> "python/export_mlc.py", cwd |-> a.base_dir,
     input |-> a.fused_dir, output |-> a.mlc_dir,
     quantization |-> a.mlc_quant,
     flags |-> IF a.compile_mlc THEN {"--compile"} ELSE {}]

step_cmd(n, a) ==
    CASE n = 1 -> step_generate_data(a)
      [] n = 2 -> step_train(a)
      [] n = 3 -> step_test_adapters(a)
      [] n = 4 -> step_fuse(a)
      [] n = 5 -> step_test_fused(a)
      [] n = 6 -> step_export_onnx(a)
      [] n = 7 -> step_export_mlc(a)

\* the check argument each step function passes to run_cmd
step_check(n) == n \notin {3, 5}

\* run_cmd: None if check and the child failed, else the CompletedProcess
None == [isNone |-> TRUE, returncode |-> 0]
run_cmd(check, r) ==
    IF check /\ r # 0 THEN None ELSE [isNone |-> FALSE, returncode |-> r]

\* step functions that all return "run_cmd(...) is not None", the gates
\* with check=False included
step_returns_NotNone(n, r) ==
    LET result == run_cmd(step_check(n), r)
    IN  ~result.isNone

\* the value a step function returns, given the child's returncode
step_returns(n, r) ==
    LET result == run_cmd(step_check(n), r)
    IN  IF step_check(n)
        THEN ~result.isNone
        ELSE ~result.isNone /\ result.returncode = 0

\* a steps list whose gates are skipped by --skip-tests alone
skip_GatesByTestsOnly(n, a) ==
    CASE n = 1 -> a.skip_data
      [] n = 2 -> a.skip_training
      [] n = 3 -> a.skip_tests
      [] n = 4 -> a.skip_training
      [] n = 5 -> a.skip_tests
      [] n = 6 -> a.skip_onnx
      [] n = 7 -> a.skip_mlc

\* main: the skip column of the steps list
skip(n, a) ==
    CASE n = 1 -> a.skip_data
      [] n = 2 -> a.skip_training
      [] n = 3 -> a.skip_tests \/ a.skip_training
      [] n = 4 -> a.skip_training
      [] n = 5 -> a.skip_tests \/ a.skip_training
      [] n = 6 -> a.skip_onnx
      [] n = 7 -> a.skip_mlc

\* the directories the external program of a command line writes
Writes(cmd) ==
    CASE cmd.prog = "python/generate_training_data.py" -> {cmd.output_dir}
      [] cmd.prog = "mlx_lm lora" -> {cmd.adapter_path}
      [] cmd.prog = "mlx_lm fuse" -> {cmd.save_path}
      [] OTHER -> {}

\* the filesystem after stage n wrote the directories ps
Written(fs, ps, n) ==
    [p \in DOMAIN fs |-> IF p \in ps THEN StageNames[n] ELSE fs[p]]

(***************************************************************************)
(* export_and_test_onnx.py                                                 *)
(***************************************************************************)
NoPath == <<>>
XSteps == {"export", "test", "quantize", "test_quant", "prepare", "node"}
XNoRes == [k \in XSteps |-> "none"]
XNoOn == [k \in XSteps |-> NoPath]
Verdict(ok) == IF ok THEN "pass" ELSE "fail"

XIdleArgs ==
    [input |-> NoPath, output |-> NoPath, quantize |-> FALSE,
     quantize_type |-> "q4-webgpu", quantize_output |-> NoPath,
     no_test |-> FALSE, test_node |-> FALSE, prepare_browser |-> FALSE]

\* argparse of the export script applied to a command line
XParse(cmd) ==
    [input |-> cmd.input, output |-> cmd.output,
     quantize |-> "--quantize" \in cmd.flags,
     quantize_type |-> IF cmd.quantize_type \in QuantizeTypes
                       THEN cmd.quantize_type ELSE "q4-webgpu",
     quantize_output |-> NoPath,
     no_test |-> "--no-test" \in cmd.flags,
     test_node |-> "--test-node" \in cmd.flags,
     prepare_browser |-> "--prepare-browser" \in cmd.flags]

\* quant_output = args.quantize_output or Path(f"{args.output}-{args.quantize_type}")
quant_output(a) ==
    IF a.quantize_output # NoPath THEN a.quantize_output
    ELSE WithSuffix(a.output, a.quantize_type)

XReturn(code) == xexit' = code /\ xpc' = "exited"

\* main without "Validate input"
XValidateInput_NoCheck ==
    /\ xpc = "validate"
    /\ xpc' = "export" /\ xexit' = xexit
    /\ UNCHANGED <<xargs, xlog, xres, xon, final_model_path>>
    /\ UNCHANGED <<ovars, mvars, dvars, evars>>

\* "Validate input"
XValidateInput ==
    /\ xpc = "validate"
    /\ IF ~exists(xargs.input)
       THEN XReturn(1)
       ELSE xpc' = "export" /\ xexit' = xexit
    /\ UNCHANGED <<xargs, xlog, xres, xon, final_model_path>>
    /\ UNCHANGED <<ovars, mvars, dvars, evars>>

\* "Export to ONNX": export_to_onnx writes the output directory
XExport ==
    /\ xpc = "export"
    /\ \E ok \in BOOLEAN, wrote \in BOOLEAN :
        /\ ok => wrote
        /\ xlog' = Append(xlog, "export")
        /\ xres' = [xres EXCEPT !["export"] = Verdict(ok)]
        /\ xon' = [xon EXCEPT !["export"] = xargs.output]
        /\ art' = IF wrote THEN Written(art, {xargs.output}, 6) ELSE art
        /\ IF ok THEN xpc' = "test" /\ xexit' = xexit ELSE XReturn(1)
    /\ UNCHANGED <<xargs, final_model_path>>
    /\ UNCHANGED <<args, pc, idx, status, invoked, spawns, cmds, proc, rc,
                   exit_code, failed_at, summary>>
    /\ UNCHANGED <<mvars, dvars, evars>>

\* "Test ONNX" with a failed test_onnx_inference ending the script
XTest_Blocking ==
    /\ xpc = "test"
    /\ IF xargs.no_test
       THEN UNCHANGED <<xlog, xres, xon>> /\ xpc' = "quantize" /\ xexit' = xexit
       ELSE \E ok \in BOOLEAN :
              /\ xlog' = Append(xlog, "test")
              /\ xres' = [xres EXCEPT !["test"] = Verdict(ok)]
              /\ xon' = [xon EXCEPT !["test"] = xargs.output]
              /\ IF ok THEN xpc' = "quantize" /\ xexit' = xexit
                 ELSE XReturn(1)
    /\ UNCHANGED <<xargs, final_model_path>>
    /\ UNCHANGED <<ovars, mvars, dvars, evars>>

\* "Test ONNX": a failed test_onnx_inference only prints a warning
XTest ==
    /\ xpc = "test"
    /\ IF xargs.no_test
       THEN UNCHANGED <<xlog, xres, xon>>
       ELSE \E ok \in BOOLEAN :
              /\ xlog' = Append(xlog, "test")
              /\ xres' = [xres EXCEPT !["test"] = Verdict(ok)]
              /\ xon' = [xon EXCEPT !["test"] = xargs.output]
    /\ xpc' = "quantize"
    /\ UNCHANGED <<xargs, xexit, final_model_path>>
    /\ UNCHANGED <<ovars, mvars, dvars, evars>>

\* "Quantize if requested" with a failed quantize_onnx only printing a
\* warning
XQuantize_Tolerant ==
    /\ xpc = "quantize"
    /\ IF ~xargs.quantize
       THEN /\ final_model_path' = xargs.output
            /\ xpc' = "prepare"
            /\ UNCHANGED <<xlog, xres, xon, xexit, art>>
       ELSE \E ok \in BOOLEAN, wrote \in BOOLEAN :
            /\ ok => wrote
            /\ xlog' = Append(xlog, "quantize")
            /\ xres' = [xres EXCEPT !["quantize"] = Verdict(ok)]
            /\ xon' = [xon EXCEPT !["quantize"] = quant_output(xargs)]
            /\ art' = IF wrote THEN Written(art, {quant_output(xargs)}, 6)
                      ELSE art
            /\ final_model_path' = IF ok THEN quant_output(xargs)
                                   ELSE xargs.output
            /\ xpc' = IF ok THEN "test_quant" ELSE "prepare"
            /\ xexit' = xexit
    /\ UNCHANGED xargs
    /\ UNCHANGED <<args, pc, idx, status, invoked, spawns, cmds, proc, rc,
                   exit_code, failed_at, summary>>
    /\ UNCHANGED <<mvars, dvars, evars>>

\* "Quantize if requested": quantize_onnx writes quant_output
XQuantize ==
    /\ xpc = "quantize"
    /\ IF ~xargs.quantize
       THEN /\ final_model_path' = xargs.output
            /\ xpc' = "prepare"
            /\ UNCHANGED <<xlog, xres, xon, xexit, art>>
       ELSE \E ok \in BOOLEAN, wrote \in BOOLEAN :
            /\ ok => wrote
            /\ xlog' = Append(xlog, "quantize")
            /\ xres' = [xres EXCEPT !["quantize"] = Verdict(ok)]
            /\ xon' = [xon EXCEPT !["quantize"] = quant_output(xargs)]
            /\ art' = IF wrote THEN Written(art, {quant_output(xargs)}, 6)
                      ELSE art
            /\ IF ok
               THEN /\ final_model_path' = quant_output(xargs)
                    /\ xpc' = "test_quant"
                    /\ xexit' = xexit
               ELSE /\ final_model_path' = xargs.output
                    /\ XReturn(1)
    /\ UNCHANGED xargs
    /\ UNCHANGED <<args, pc, idx, status, invoked, spawns, cmds, proc, rc,
                   exit_code, failed_at, summary>>
    /\ UNCHANGED <<mvars, dvars, evars>>

\* "Test quantized model": a failed test only prints a warning
XTestQuant ==
    /\ xpc = "test_quant"
    /\ IF xargs.no_test
       THEN UNCHANGED <<xlog, xres, xon>>
       ELSE \E ok \in BOOLEAN :
              /\ xlog' = Append(xlog, "test_quant")
              /\ xres' = [xres EXCEPT !["test_quant"] = Verdict(ok)]
              /\ xon' = [xon EXCEPT !["test_quant"] = quant_output(xargs)]
    /\ xpc' = "prepare"
    /\ UNCHANGED <<xargs, xexit, final_model_path>>
    /\ UNCHANGED <<ovars, mvars, dvars, evars>>

\* "Prepare for browser deployment" with a failed prepare_for_browser
\* ending the script
XPrepareBrowser_Blocking ==
    /\ xpc = "prepare"
    /\ IF ~xargs.prepare_browser
       THEN UNCHANGED <<xlog, xres, xon, art>> /\ xpc' = "node" /\ xexit' = xexit
       ELSE \E ok \in BOOLEAN :
              /\ xlog' = Append(xlog, "prepare")
              /\ xres' = [xres EXCEPT !["prepare"] = Verdict(ok)]
              /\ xon' = [xon EXCEPT !["prepare"] = final_model_path]
              /\ art' = Written(art, {final_model_path}, 6)
              /\ IF ok THEN xpc' = "node" /\ xexit' = xexit ELSE XReturn(1)
    /\ UNCHANGED <<xargs, final_model_path>>
    /\ UNCHANGED <<args, pc, idx, status, invoked, spawns, cmds, proc, rc,
                   exit_code, failed_at, summary>>
    /\ UNCHANGED <<mvars, dvars, evars>>

\* "Prepare for browser deployment" with prepare_for_browser(args.output)
XPrepareBrowser_OnExportDir ==
    /\ xpc = "prepare"
    /\ IF ~xargs.prepare_browser
       THEN UNCHANGED <<xlog, xres, xon, art>>
       ELSE \E ok \in BOOLEAN :
              /\ xlog' = Append(xlog, "prepare")
              /\ xres' = [xres EXCEPT !["prepare"] = Verdict(ok)]
              /\ xon' = [xon EXCEPT !["prepare"] = xargs.output]
              /\ art' = Written(art, {xargs.output}, 6)
    /\ xpc' = "node"
    /\ UNCHANGED <<xargs, xexit, final_model_path>>
    /\ UNCHANGED <<args, pc, idx, status, invoked, spawns, cmds, proc, rc,
                   exit_code, failed_at, summary>>
    /\ UNCHANGED <<mvars, dvars, evars>>

\* "Prepare for browser deployment": prepare_for_browser changes
\* final_model_path in place; its result only prints a warning
XPrepareBrowser ==
    /\ xpc = "prepare"
    /\ IF ~xargs.prepare_browser
       THEN UNCHANGED <<xlog, xres, xon, art>>
       ELSE \E ok \in BOOLEAN :
              /\ xlog' = Append(xlog, "prepare")
              /\ xres' = [xres EXCEPT !["prepare"] = Verdict(ok)]
              /\ xon' = [xon EXCEPT !["prepare"] = final_model_path]
              /\ art' = Written(art, {final_model_path}, 6)
    /\ xpc' = "node"
    /\ UNCHANGED <<xargs, xexit, final_model_path>>
    /\ UNCHANGED <<args, pc, idx, status, invoked, spawns, cmds, proc, rc,
                   exit_code, failed_at, summary>>
    /\ UNCHANGED <<mvars, dvars, evars>>

\* "Run Node.js Transformers.js test", then "Export complete!"
XNodeTest ==
    /\ xpc = "node"
    /\ IF ~xargs.test_node
       THEN XReturn(0) /\ UNCHANGED <<xlog, xres, xon>>
       ELSE \E ok \in BOOLEAN :
              /\ xlog' = Append(xlog, "node")
              /\ xres' = [xres EXCEPT !["node"] = Verdict(ok)]
              /\ xon' = [xon EXCEPT !["node"] = final_model_path]
              /\ XReturn(IF ok THEN 0 ELSE 1)
    /\ UNCHANGED <<xargs, final_model_path>>
    /\ UNCHANGED <<ovars, mvars, dvars, evars>>

(***************************************************************************)
(* export_and_test_onnx.py: the functions that work on a model directory   *)
(*                                                                         *)
(* A directory is a function from the names of its files to what they      *)
(* hold, Absent for a file that is not there.                              *)
(***************************************************************************)
REF_CONFIG == "examples/reference-tokenizer_config.json"
REF_MODEL == "examples/reference-tokenizer.model"

\* what the files of a model directory, and the two reference files next
\* to the script, may hold
FileContents ==
    [f \in {"model.onnx", "onnx/model.onnx", "decoder_model.onnx",
            "tokenizer.json", "tokenizer_config.json", "tokenizer.model"}
        |-> {Absent, "exported"}]
    @@ [f \in {"onnx"} |-> {Absent, "directory"}]
    @@ [f \in {"config.json"} |->
            {Absent, "plain", "transformers.js_config", "use_cache false",
             "not json"}]
    @@ [f \in {REF_CONFIG, REF_MODEL} |-> {Absent, "reference"}]

has(fs, f) == fs[f] # Absent

NoFile == "none"

\* quantize_q4_webgpu, "Find the model.onnx file"
model_file_q4_webgpu(fs) ==
    LET first == IF ~has(fs, "model.onnx") /\ has(fs, "onnx")
                 THEN "onnx/model.onnx" ELSE "model.onnx"
        second == IF ~has(fs, first) THEN "decoder_model.onnx" ELSE first
    IN  IF has(fs, second) THEN second ELSE NoFile

\* quantize_onnx, "Find the model.onnx file"
model_file_quantize_onnx(fs) ==
    LET first == IF ~has(fs, "model.onnx")
                 THEN "decoder_model.onnx" ELSE "model.onnx"
    IN  IF has(fs, first) THEN first ELSE NoFile

\* test_onnx_inference, "Find model file"
model_file_test_onnx_inference(fs) ==
    LET first == IF ~has(fs, "model.onnx")
                 THEN "decoder_model.onnx" ELSE "model.onnx"
        second == IF ~has(fs, first) /\ has(fs, "onnx")
                  THEN "onnx/model.onnx" ELSE first
    IN  IF has(fs, second) THEN second ELSE NoFile

\* what a function on a directory returns: its value, the model file it
\* chose, the library calls it made and the files it reported missing
FReturned(value, model_file, calls, missing) ==
    [kind |-> "return", value |-> value, model_file |-> model_file,
     calls |-> calls, missing |-> missing]

\* quantize_q4_webgpu; lib_ok: the imports and the quantizer work
quantize_q4_webgpu(fs, lib_ok) ==
    LET model_file == model_file_q4_webgpu(fs)
    IN  IF model_file = NoFile THEN FReturned(FALSE, NoFile, <<>>, {})
        ELSE FReturned(lib_ok, model_file, <<"MatMul4BitsQuantizer">>, {})

\* quantize_onnx whose Q4 branch has no INT8 fallback
quantize_onnx_NoFallback(fs, quant_type, lib_ok, fallback_ok) ==
    IF quant_type = "q4-webgpu" THEN quantize_q4_webgpu(fs, lib_ok)
    ELSE
    LET model_file == model_file_quantize_onnx(fs)
    IN  IF model_file = NoFile THEN FReturned(FALSE, NoFile, <<>>, {})
        ELSE CASE quant_type = "int8" ->
                    FReturned(lib_ok, model_file,
                              <<"quantize_dynamic QInt8">>, {})
               [] quant_type = "fp16" ->
                    FReturned(lib_ok, model_file,
                              <<"convert_float_to_float16">>, {})
               [] quant_type = "q4" ->
                    FReturned(lib_ok, model_file,
                              <<"quantize_dynamic QUInt4x2">>, {})
               [] OTHER -> FReturned(FALSE, model_file, <<>>, {})

\* quantize_onnx; lib_ok: the quantization call of the mode works;
\* fallback_ok: the INT8 call after a failed Q4 call works
quantize_onnx(fs, quant_type, lib_ok, fallback_ok) ==
    IF quant_type = "q4-webgpu" THEN quantize_q4_webgpu(fs, lib_ok)
    ELSE
    LET model_file == model_file_quantize_onnx(fs)
    IN  IF model_file = NoFile THEN FReturned(FALSE, NoFile, <<>>, {})
        ELSE CASE quant_type = "int8" ->
                    FReturned(lib_ok, model_file,
                              <<"quantize_dynamic QInt8">>, {})
               [] quant_type = "fp16" ->
                    FReturned(lib_ok, model_file,
                              <<"convert_float_to_float16">>, {})
               [] quant_type = "q4" ->
                    IF lib_ok
                    THEN FReturned(TRUE, model_file,
                                   <<"quantize_dynamic QUInt4x2">>, {})
                    ELSE FReturned(fallback_ok, model_file,
                                   <<"quantize_dynamic QUInt4x2",
                                     "quantize_dynamic QInt8">>, {})
               [] OTHER -> FReturned(FALSE, model_file, <<>>, {})

\* test_onnx_inference; tokenizer_ok: the imports and the tokenizer load;
\* run: how the session's forward pass ends
test_onnx_inference(fs, tokenizer_ok, run) ==
    IF ~tokenizer_ok THEN FReturned(FALSE, NoFile, <<>>, {})
    ELSE
    LET model_file == model_file_test_onnx_inference(fs)
    IN  IF model_file = NoFile
        THEN FReturned(FALSE, NoFile, <<"AutoTokenizer">>, {})
        ELSE FReturned(run \in {"ok", "cache error"}, model_file,
                       <<"AutoTokenizer", "InferenceSession">>, {})

\* prepare_for_browser moving model.onnx without looking whether it exists
prepare_for_browser_fs_MovesUnchecked(fs) ==
    LET moved == [fs EXCEPT !["onnx"] = "directory",
                            !["onnx/model.onnx"] = fs["model.onnx"],
                            !["model.onnx"] = Absent]
        config_copied ==
            IF has(fs, REF_CONFIG)
            THEN [moved EXCEPT !["tokenizer_config.json"] = fs[REF_CONFIG]]
            ELSE moved
        model_copied ==
            IF has(fs, REF_MODEL)
            THEN [config_copied EXCEPT !["tokenizer.model"] = fs[REF_MODEL]]
            ELSE config_copied
    IN  IF fs["config.json"] \in {"transformers.js_config", "use_cache false"}
        THEN [model_copied EXCEPT !["config.json"] = "plain"]
        ELSE model_copied

\* prepare_for_browser copying a reference file only where the directory
\* has no file of that name
prepare_for_browser_fs_KeepsExisting(fs) ==
    LET moved == IF has(fs, "model.onnx")
                 THEN [fs EXCEPT !["onnx"] = "directory",
                                 !["onnx/model.onnx"] = fs["model.onnx"],
                                 !["model.onnx"] = Absent]
                 ELSE [fs EXCEPT !["onnx"] = "directory"]
        config_copied ==
            IF has(fs, REF_CONFIG) /\ ~has(fs, "tokenizer_config.json")
            THEN [moved EXCEPT !["tokenizer_config.json"] = fs[REF_CONFIG]]
            ELSE moved
        model_copied ==
            IF has(fs, REF_MODEL) /\ ~has(fs, "tokenizer.model")
            THEN [config_copied EXCEPT !["tokenizer.model"] = fs[REF_MODEL]]
            ELSE config_copied
    IN  IF fs["config.json"] \in {"transformers.js_config", "use_cache false"}
        THEN [model_copied EXCEPT !["config.json"] = "plain"]
        ELSE model_copied

\* prepare_for_browser: the directory it leaves behind
prepare_for_browser_fs(fs) ==
    LET moved == IF has(fs, "model.onnx")
                 THEN [fs EXCEPT !["onnx"] = "directory",
                                 !["onnx/model.onnx"] = fs["model.onnx"],
                                 !["model.onnx"] = Absent]
                 ELSE [fs EXCEPT !["onnx"] = "directory"]
        config_copied ==
            IF has(fs, REF_CONFIG)
            THEN [moved EXCEPT !["tokenizer_config.json"] = fs[REF_CONFIG]]
            ELSE moved
        model_copied ==
            IF has(fs, REF_MODEL)
            THEN [config_copied EXCEPT !["tokenizer.model"] = fs[REF_MODEL]]
            ELSE config_copied
    IN  IF fs["config.json"] \in {"transformers.js_config", "use_cache false"}
        THEN [model_copied EXCEPT !["config.json"] = "plain"]
        ELSE model_copied

\* prepare_for_browser: what it returns; json.load of a config.json that
\* is not JSON raises, which the function turns into False
prepare_for_browser(fs) ==
    IF fs["config.json"] = "not json"
    THEN FReturned(FALSE, NoFile, <<>>, {})
    ELSE LET after == prepare_for_browser_fs(fs)
         IN  FReturned(TRUE, NoFile, <<>>,
                       {f \in {"config.json", "tokenizer.json",
                                "tokenizer_config.json", "onnx/model.onnx"} :
                            ~has(after, f)})

FCall(call, ret, fs) ==
    /\ epc = "ready"
    /\ ecall' = call
    /\ eret' = ret
    /\ efs' = fs
    /\ epc' = "returned"
    /\ UNCHANGED <<ovars, xvars, mvars, dvars>>

\* ok = quantize_onnx(input_path, output_path, quant_type)
FQuantize ==
    \E quant_type \in QuantizeTypes \cup {"int4"},
       lib_ok \in BOOLEAN, fallback_ok \in BOOLEAN :
        FCall([fn |-> "quantize_onnx", quant_type |-> quant_type,
               lib_ok |-> lib_ok, fallback_ok |-> fallback_ok],
              quantize_onnx(efs, quant_type, lib_ok, fallback_ok), efs)

\* ok = test_onnx_inference(model_path)
FTestInference ==
    \E tokenizer_ok \in BOOLEAN, run \in {"ok", "cache error", "error"} :
        FCall([fn |-> "test_onnx_inference"],
              test_onnx_inference(efs, tokenizer_ok, run), efs)

\* ok = prepare_for_browser(model_path)
FPrepareBrowser ==
    FCall([fn |-> "prepare_for_browser", before |-> efs],
          prepare_for_browser(efs), prepare_for_browser_fs(efs))

\* ok = prepare_for_browser(model_path) once more on the directory the
\* first call left behind
FPrepareAgain ==
    /\ epc = "returned"
    /\ ecall.fn = "prepare_for_browser"
    /\ ecall' = [fn |-> "prepare_for_browser again",
                 before |-> ecall.before, once |-> efs, first |-> eret]
    /\ eret' = prepare_for_browser(efs)
    /\ efs' = prepare_for_browser_fs(efs)
    /\ epc' = "returned"
    /\ UNCHANGED <<ovars, xvars, mvars, dvars>>

\* a function is about to be called on a model directory
FStart ==
    /\ epc = "ready" /\ ecall = <<>> /\ eret = <<>>
    /\ \E model \in FileContents["model.onnx"],
          onnx \in FileContents["onnx"],
          onnx_model \in FileContents["onnx/model.onnx"],
          decoder \in FileContents["decoder_model.onnx"],
          config \in FileContents["config.json"],
          tokenizer \in FileContents["tokenizer.json"],
          tokenizer_config \in FileContents["tokenizer_config.json"],
          tokenizer_model \in FileContents["tokenizer.model"],
          ref_config \in FileContents[REF_CONFIG],
          ref_model \in FileContents[REF_MODEL] :
            /\ onnx_model # Absent => onnx # Absent
            /\ efs = [f \in DOMAIN FileContents |->
                        CASE f = "model.onnx" -> model
                          [] f = "onnx" -> onnx
                          [] f = "onnx/model.onnx" -> onnx_model
                          [] f = "decoder_model.onnx" -> decoder
                          [] f = "config.json" -> config
                          [] f = "tokenizer.json" -> tokenizer
                          [] f = "tokenizer_config.json" -> tokenizer_config
                          [] f = "tokenizer.model" -> tokenizer_model
                          [] f = REF_CONFIG -> ref_config
                          [] OTHER -> ref_model]

(***************************************************************************)
(* export_mlc.py                                                           *)
(***************************************************************************)
MIdleArgs ==
    [input |-> NoPath, output |-> NoPath, quantization |-> "q0f16",
     compile |-> FALSE]

\* argparse of the MLC script applied to a command line
MParse(cmd) ==
    [input |-> cmd.input, output |-> cmd.output,
     quantization |-> cmd.quantization,
     compile |-> "--compile" \in cmd.flags]

\* export_mlc.run_cmd: False if check and the child failed
mlc_run_cmd(check, r) == ~(check /\ r # 0)

MExit(code) == mexit' = code /\ mpc' = "exited"

MSteps == {"convert_weight", "gen_config", "compile"}
MNoRes == [k \in MSteps |-> "none"]
\* result.returncode of a command, as far as run_cmd tells codes apart
ExitText(r) == IF r = 0 THEN "exit 0" ELSE "exit non-zero"

\* main: the input check
MValidateInput ==
    /\ mpc = "validate"
    /\ IF ~exists(margs.input)
       THEN MExit(1)
       ELSE mpc' = "convert_weight" /\ mexit' = mexit
    /\ UNCHANGED <<margs, mlog, mres>>
    /\ UNCHANGED <<ovars, xvars, dvars, evars>>

\* export_to_mlc, first command: mlc_llm convert_weight
MConvertWeight ==
    /\ mpc = "convert_weight"
    /\ \E r \in ExitCodes, wrote \in BOOLEAN :
        /\ r = 0 => wrote
        /\ mlog' = Append(mlog, "convert_weight")
        /\ mres' = [mres EXCEPT !["convert_weight"] = ExitText(r)]
        /\ art' = IF wrote THEN Written(art, {margs.output}, 7) ELSE art
        /\ IF mlc_run_cmd(TRUE, r)
           THEN mpc' = "gen_config" /\ mexit' = mexit
           ELSE MExit(1)
    /\ UNCHANGED margs
    /\ UNCHANGED <<args, pc, idx, status, invoked, spawns, cmds, proc, rc,
                   exit_code, failed_at, summary>>
    /\ UNCHANGED <<xvars, dvars, evars>>

\* export_to_mlc, second command: mlc_llm gen_config
MGenConfig ==
    /\ mpc = "gen_config"
    /\ \E r \in ExitCodes, wrote \in BOOLEAN :
        /\ r = 0 => wrote
        /\ mlog' = Append(mlog, "gen_config")
        /\ mres' = [mres EXCEPT !["gen_config"] = ExitText(r)]
        /\ art' = IF wrote THEN Written(art, {margs.output}, 7) ELSE art
        /\ IF mlc_run_cmd(TRUE, r)
           THEN mpc' = "compile" /\ mexit' = mexit
           ELSE MExit(1)
    /\ UNCHANGED margs
    /\ UNCHANGED <<args, pc, idx, status, invoked, spawns, cmds, proc, rc,
                   exit_code, failed_at, summary>>
    /\ UNCHANGED <<xvars, dvars, evars>>

\* "Optional Compilation" with a failed compile_model ending the script
MCompile_Blocking ==
    /\ mpc = "compile"
    /\ IF ~margs.compile
       THEN UNCHANGED <<mlog, mres, art>> /\ MExit(0)
       ELSE \E emcc \in BOOLEAN :
              IF ~emcc
              THEN /\ mres' = [mres EXCEPT !["compile"] = "no emcc"]
                   /\ UNCHANGED <<mlog, art>>
                   /\ MExit(0)
              ELSE \E r \in ExitCodes, wrote \in BOOLEAN :
                     /\ r = 0 => wrote
                     /\ mlog' = Append(mlog, "compile")
                     /\ mres' = [mres EXCEPT !["compile"] = ExitText(r)]
                     /\ art' = IF wrote
                               THEN Written(art, {margs.output}, 7)
                               ELSE art
                     /\ MExit(IF mlc_run_cmd(TRUE, r) THEN 0 ELSE 1)
    /\ UNCHANGED margs
    /\ UNCHANGED <<args, pc, idx, status, invoked, spawns, cmds, proc, rc,
                   exit_code, failed_at, summary>>
    /\ UNCHANGED <<xvars, dvars, evars>>

\* "Optional Compilation" (compile_model), finalize_structure, and the end
\* of main; a failed compilation only prints a warning
MCompile ==
    /\ mpc = "compile"
    /\ IF ~margs.compile
       THEN UNCHANGED <<mlog, mres, art>>
       ELSE \E emcc \in BOOLEAN :
              IF ~emcc
              THEN /\ mres' = [mres EXCEPT !["compile"] = "no emcc"]
                   /\ UNCHANGED <<mlog, art>>
              ELSE \E r \in ExitCodes, wrote \in BOOLEAN :
                     /\ r = 0 => wrote
                     /\ mlog' = Append(mlog, "compile")
                     /\ mres' = [mres EXCEPT !["compile"] = ExitText(r)]
                     /\ art' = IF wrote
                               THEN Written(art, {margs.output}, 7)
                               ELSE art
    /\ MExit(0)
    /\ UNCHANGED margs
    /\ UNCHANGED <<args, pc, idx, status, invoked, spawns, cmds, proc, rc,
                   exit_code, failed_at, summary>>
    /\ UNCHANGED <<xvars, dvars, evars>>

(***************************************************************************)
(* run_pipeline.py: main                                                   *)
(***************************************************************************)
\* the child process of the running stage has exited
ChildExited ==
    CASE idx = 6 -> xpc = "exited"
      [] idx = 7 -> mpc = "exited"
      [] OTHER -> proc = "exited"

\* result.returncode of subprocess.run
returncode ==
    CASE idx = 6 -> xexit
      [] idx = 7 -> mexit
      [] OTHER -> rc

\* for loop, "if skip: continue"
SkipStage ==
    /\ pc = "loop"
    /\ idx \in Stages
    /\ status[idx] = "Pending"
    /\ skip(idx, args)
    /\ status' = [status EXCEPT ![idx] = "Skipped"]
    /\ idx' = idx + 1
    /\ UNCHANGED <<args, pc, invoked, spawns, cmds, proc, rc, exit_code,
                   failed_at, summary, art>>
    /\ UNCHANGED <<xvars, mvars, dvars, evars>>

\* StartStage without the "if skip: continue" before it
StartStage_IgnoresSkip ==
    /\ pc = "loop"
    /\ idx \in Stages
    /\ status[idx] = "Pending"
    /\ status' = [status EXCEPT ![idx] = "Running"]
    /\ invoked' = Append(invoked, idx)
    /\ cmds' = [cmds EXCEPT ![idx] = step_cmd(idx, args)]
    /\ spawns' = Append(spawns, idx)
    /\ proc' = IF idx \in {6, 7} THEN proc ELSE "running"
    /\ IF idx = 6
       THEN /\ xargs' = XParse(step_cmd(idx, args))
            /\ xpc' = "validate"
            /\ UNCHANGED <<xexit, xlog, xres, xon, final_model_path>>
       ELSE UNCHANGED xvars
    /\ IF idx = 7
       THEN /\ margs' = MParse(step_cmd(idx, args))
            /\ mpc' = "validate"
            /\ UNCHANGED <<mexit, mlog, mres>>
       ELSE UNCHANGED mvars
    /\ UNCHANGED <<args, pc, idx, rc, exit_code, failed_at, summary, art>>
    /\ UNCHANGED <<dvars, evars>>

\* StartStage that does not wait for the child (Popen instead of run): the
\* loop moves on to the next stage at once
StartStage_NoWait ==
    /\ pc = "loop"
    /\ idx \in Stages
    /\ status[idx] = "Pending"
    /\ ~skip(idx, args)
    /\ status' = [status EXCEPT ![idx] = "Running"]
    /\ invoked' = Append(invoked, idx)
    /\ cmds' = [cmds EXCEPT ![idx] = step_cmd(idx, args)]
    /\ spawns' = Append(spawns, idx)
    /\ idx' = idx + 1
    /\ UNCHANGED <<args, pc, proc, rc, exit_code, failed_at, summary, art>>
    /\ UNCHANGED <<xvars, mvars, dvars, evars>>

\* for loop, step_fn(args) up to subprocess.run in run_cmd: the step
\* function builds its command line and the child process is started
StartStage ==
    /\ pc = "loop"
    /\ idx \in Stages
    /\ status[idx] = "Pending"
    /\ ~skip(idx, args)
    /\ status' = [status EXCEPT ![idx] = "Running"]
    /\ invoked' = Append(invoked, idx)
    /\ cmds' = [cmds EXCEPT ![idx] = step_cmd(idx, args)]
    /\ spawns' = Append(spawns, idx)
    /\ proc' = IF idx \in {6, 7} THEN proc ELSE "running"
    /\ IF idx = 6
       THEN /\ xargs' = XParse(step_cmd(idx, args))
            /\ xpc' = "validate"
            /\ UNCHANGED <<xexit, xlog, xres, xon, final_model_path>>
       ELSE UNCHANGED xvars
    /\ IF idx = 7
       THEN /\ margs' = MParse(step_cmd(idx, args))
            /\ mpc' = "validate"
            /\ UNCHANGED <<mexit, mlog, mres>>
       ELSE UNCHANGED mvars
    /\ UNCHANGED <<args, pc, idx, rc, exit_code, failed_at, summary, art>>
    /\ UNCHANGED <<dvars, evars>>

\* the external program of stages 1..5 runs to completion
ExternalExit ==
    /\ pc = "loop"
    /\ idx \in Stages \ {6, 7}
    /\ status[idx] = "Running"
    /\ proc = "running"
    /\ \E r \in ExitCodes, wrote \in BOOLEAN :
        /\ r = 0 => wrote
        /\ rc' = r
        /\ art' = IF wrote THEN Written(art, Writes(cmds[idx]), idx) ELSE art
    /\ proc' = "exited"
    /\ UNCHANGED <<args, pc, idx, status, invoked, spawns, cmds, exit_code,
                   failed_at, summary>>
    /\ UNCHANGED <<xvars, mvars, dvars, evars>>

\* StageVerdict with the loop going on after a failed stage
StageVerdict_NoHalt ==
    /\ pc = "loop"
    /\ idx \in Stages
    /\ status[idx] = "Running"
    /\ ChildExited
    /\ IF step_returns(idx, returncode)
       THEN /\ status' = [status EXCEPT ![idx] = "Succeeded"]
            /\ idx' = idx + 1
            /\ proc' = "none"
            /\ UNCHANGED <<pc, exit_code, failed_at, spawns, art>>
       ELSE /\ status' = [status EXCEPT ![idx] = "Failed"]
            /\ failed_at' = StageNames[idx]
            /\ idx' = idx + 1
            /\ proc' = "none"
            /\ UNCHANGED <<pc, exit_code, spawns, art>>
    /\ UNCHANGED <<args, invoked, cmds, rc, summary>>
    /\ UNCHANGED <<xvars, mvars, dvars, evars>>

\* StageVerdict with "return 0" after a failed stage
StageVerdict_ReturnZero ==
    /\ pc = "loop"
    /\ idx \in Stages
    /\ status[idx] = "Running"
    /\ ChildExited
    /\ IF step_returns(idx, returncode)
       THEN /\ status' = [status EXCEPT ![idx] = "Succeeded"]
            /\ idx' = idx + 1
            /\ proc' = "none"
            /\ UNCHANGED <<pc, exit_code, failed_at, spawns, art>>
       ELSE /\ status' = [status EXCEPT ![idx] = "Failed"]
            /\ failed_at' = StageNames[idx]
            /\ exit_code' = 0
            /\ pc' = "done"
            /\ proc' = "none"
            /\ UNCHANGED <<idx, spawns, art>>
    /\ UNCHANGED <<args, invoked, cmds, rc, summary>>
    /\ UNCHANGED <<xvars, mvars, dvars, evars>>

\* StageVerdict that only warns when a gate (check=False) fails
StageVerdict_GateTolerant ==
    /\ pc = "loop"
    /\ idx \in Stages
    /\ status[idx] = "Running"
    /\ ChildExited
    /\ IF step_returns(idx, returncode)
       THEN /\ status' = [status EXCEPT ![idx] = "Succeeded"]
            /\ idx' = idx + 1
            /\ proc' = "none"
            /\ UNCHANGED <<pc, exit_code, failed_at, spawns, art>>
       ELSE IF step_check(idx)
            THEN /\ status' = [status EXCEPT ![idx] = "Failed"]
                 /\ failed_at' = StageNames[idx]
                 /\ exit_code' = 1
                 /\ pc' = "done"
                 /\ proc' = "none"
                 /\ UNCHANGED <<idx, spawns, art>>
            ELSE /\ status' = [status EXCEPT ![idx] = "Failed"]
                 /\ idx' = idx + 1
                 /\ proc' = "none"
                 /\ UNCHANGED <<pc, exit_code, failed_at, spawns, art>>
    /\ UNCHANGED <<args, invoked, cmds, rc, summary>>
    /\ UNCHANGED <<xvars, mvars, dvars, evars>>

\* StageVerdict that runs the command of a failed stage once more
StageVerdict_Retry ==
    /\ pc = "loop"
    /\ idx \in Stages
    /\ status[idx] = "Running"
    /\ ChildExited
    /\ IF step_returns(idx, returncode)
       THEN /\ status' = [status EXCEPT ![idx] = "Succeeded"]
            /\ idx' = idx + 1
            /\ proc' = "none"
            /\ UNCHANGED <<pc, exit_code, failed_at, spawns, art>>
       ELSE IF Count(idx, spawns) < 2 /\ idx \notin {6, 7}
            THEN /\ spawns' = Append(spawns, idx)
                 /\ proc' = "running"
                 /\ UNCHANGED <<status, idx, pc, exit_code, failed_at, art>>
            ELSE /\ status' = [status EXCEPT ![idx] = "Failed"]
                 /\ failed_at' = StageNames[idx]
                 /\ exit_code' = 1
                 /\ pc' = "done"
                 /\ proc' = "none"
                 /\ UNCHANGED <<idx, spawns, art>>
    /\ UNCHANGED <<args, invoked, cmds, rc, summary>>
    /\ UNCHANGED <<xvars, mvars, dvars, evars>>

\* StageVerdict that removes what the run has written when a stage fails
StageVerdict_Rollback ==
    /\ pc = "loop"
    /\ idx \in Stages
    /\ status[idx] = "Running"
    /\ ChildExited
    /\ IF step_returns(idx, returncode)
       THEN /\ status' = [status EXCEPT ![idx] = "Succeeded"]
            /\ idx' = idx + 1
            /\ proc' = "none"
            /\ UNCHANGED <<pc, exit_code, failed_at, spawns, art>>
       ELSE /\ status' = [status EXCEPT ![idx] = "Failed"]
            /\ failed_at' = StageNames[idx]
            /\ exit_code' = 1
            /\ pc' = "done"
            /\ proc' = "none"
            /\ art' = [p \in DOMAIN art |->
                         IF art[p] \in {Absent, PreExisting} THEN art[p]
                         ELSE Absent]
            /\ UNCHANGED <<idx, spawns>>
    /\ UNCHANGED <<args, invoked, cmds, rc, summary>>
    /\ UNCHANGED <<xvars, mvars, dvars, evars>>

\* StageVerdict that gives no verdict on a failed stage: main stays in
\* the step function
StageVerdict_WaitsOnFailure ==
    /\ pc = "loop"
    /\ idx \in Stages
    /\ status[idx] = "Running"
    /\ ChildExited
    /\ step_returns(idx, returncode)
    /\ status' = [status EXCEPT ![idx] = "Succeeded"]
    /\ idx' = idx + 1
    /\ proc' = "none"
    /\ UNCHANGED <<pc, exit_code, failed_at>>
    /\ UNCHANGED <<args, invoked, spawns, cmds, rc, summary, art>>
    /\ UNCHANGED <<xvars, mvars, dvars, evars>>

\* run_cmd returns, the step function returns, "if not step_fn(args)"
StageVerdict ==
    /\ pc = "loop"
    /\ idx \in Stages
    /\ status[idx] = "Running"
    /\ ChildExited
    /\ IF step_returns(idx, returncode)
       THEN /\ status' = [status EXCEPT ![idx] = "Succeeded"]
            /\ idx' = idx + 1
            /\ UNCHANGED <<pc, exit_code, failed_at>>
       ELSE /\ status' = [status EXCEPT ![idx] = "Failed"]
            /\ failed_at' = StageNames[idx]
            /\ exit_code' = 1
            /\ pc' = "done"
            /\ UNCHANGED idx
    /\ proc' = "none"
    /\ UNCHANGED <<args, invoked, spawns, cmds, rc, summary, art>>
    /\ UNCHANGED <<xvars, mvars, dvars, evars>>

\* the "Outputs:" lines main prints after the loop
Outputs(a) ==
    [adapters |-> a.adapter_dir,
     fused |-> a.fused_dir,
     onnx |-> IF ~a.skip_onnx THEN a.onnx_dir ELSE NoPath,
     quantized |-> IF ~a.skip_onnx /\ a.quantize
                   THEN WithSuffix(a.onnx_dir, "int8") ELSE NoPath,
     mlc |-> IF ~a.skip_mlc THEN a.mlc_dir ELSE NoPath]

NoOutputs ==
    [adapters |-> NoPath, fused |-> NoPath, onnx |-> NoPath,
     quantized |-> NoPath, mlc |-> NoPath]

\* after the loop: "Pipeline Complete!", return 0
PipelineComplete ==
    /\ pc = "loop"
    /\ idx = NumStages + 1
    /\ summary' = Outputs(args)
    /\ exit_code' = 0
    /\ pc' = "done"
    /\ UNCHANGED <<args, idx, status, invoked, spawns, cmds, proc, rc,
                   failed_at, art>>
    /\ UNCHANGED <<xvars, mvars, dvars, evars>>

\* the scripts are not running
XIdle ==
    /\ xargs = XIdleArgs /\ xpc = "idle" /\ xexit = NotExited
    /\ xlog = <<>> /\ xres = XNoRes /\ xon = XNoOn
    /\ final_model_path = NoPath
MIdle ==
    /\ margs = MIdleArgs /\ mpc = "idle" /\ mexit = NotExited
    /\ mlog = <<>> /\ mres = MNoRes
DIdle ==
    /\ dargs = <<>> /\ dpc = "idle" /\ dexit = NotExited /\ dk = 0
    /\ training_data = <<>> /\ train_data = <<>> /\ valid_data = <<>>
    /\ dfiles = <<>> /\ last_sample = <<>>
    /\ dtools = <<>> /\ dexamples = <<>>

\* nothing calls the formatting functions
EIdle == epc = "idle" /\ ecall = <<>> /\ eret = <<>> /\ efs = <<>>

\* main has parsed its command line and set up the paths
Init ==
    /\ \E parsed \in ParsedArgs : args = SetUpPaths(parsed)
    /\ pc = "loop"
    /\ idx = 1
    /\ status = [n \in Stages |-> "Pending"]
    /\ invoked = <<>>
    /\ spawns = <<>>
    /\ cmds = [n \in Stages |-> NoCmd]
    /\ proc = "none"
    /\ rc = 0
    /\ exit_code = NotExited
    /\ failed_at = ""
    /\ summary = NoOutputs
    /\ \E k \in 0..Len(PreOrder(args)) : art = PreRunFs(args, k)
    /\ XIdle /\ MIdle /\ DIdle /\ EIdle

Next ==
    \/ SkipStage
    \/ StartStage
    \/ ExternalExit
    \/ StageVerdict
    \/ PipelineComplete
    \/ XValidateInput
    \/ XExport
    \/ XTest
    \/ XQuantize
    \/ XTestQuant
    \/ XPrepareBrowser
    \/ XNodeTest
    \/ MValidateInput
    \/ MConvertWeight
    \/ MGenConfig
    \/ MCompile

Spec == Init /\ [][Next]_vars

\* main and the scripts it waits for keep running, and every external
\* program returns
SpecFair == Spec /\ WF_vars(Next)

(***************************************************************************)
(* Properties of the orchestrator                                          *)
(***************************************************************************)
Gates == {3, 5}
Started(n) == status[n] \in {"Running", "Succeeded", "Failed"}

\* C1 (pipeline halt law): once the step function of a stage has returned
\* failure, no stage later in the steps list is invoked: each later stage
\* is still Pending, was never called and no command was built for it.
C1_HaltLaw ==
    \A n \in Stages :
        status[n] = "Failed" =>
            \A m \in Stages :
                m > n => /\ status[m] = "Pending"
                         /\ Count(m, invoked) = 0
                         /\ cmds[m] = NoCmd

\* a stage failed with both export stages after it not skipped
C1_Witness ==
    /\ pc = "done"
    /\ status[2] = "Failed"
    /\ ~skip(6, args) /\ ~skip(7, args)

\* C2: main returns 1 exactly when an executed stage failed, and then the
\* failed stage is the first and only one and nothing after it ran; it
\* returns 0 exactly when every stage ended Succeeded or Skipped.  (No
\* stage of the steps list is tolerant: every False from a step function
\* ends the run.)
C2_ExitCode ==
    /\ pc # "done" => exit_code = NotExited
    /\ pc = "done" =>
        /\ exit_code \in {0, 1}
        /\ exit_code = 1 <=> \E n \in Stages : status[n] = "Failed"
        /\ exit_code = 0 <=>
              \A n \in Stages : status[n] \in {"Succeeded", "Skipped"}
        /\ \A n \in Stages :
              status[n] = "Failed" =>
                /\ failed_at = StageNames[n]
                /\ \A m \in Stages :
                      /\ m < n => status[m] \in {"Succeeded", "Skipped"}
                      /\ m > n => status[m] = "Pending"

\* the run ended with exit code 1 at the fuse stage, after training succeeded
C2_Witness ==
    /\ pc = "done" /\ exit_code = 1
    /\ status[4] = "Failed" /\ status[2] = "Succeeded"

\* C3 as claimed: a failed gate (Test Adapters, Test Fused) does not abort
\* the run: the run does not end at the gate with exit code 1.
C3_GatesAdvisory ==
    \A g \in Gates :
        status[g] = "Failed" => ~(pc = "done" /\ exit_code = 1)

\* C3 amended: the gates are blocking.  When a gate runs and its smoke check
\* fails, the run ends at that gate with exit code 1 and no later stage is
\* invoked.
C3_GatesBlocking ==
    \A g \in Gates :
        status[g] = "Failed" =>
            /\ pc = "done"
            /\ exit_code = 1
            /\ failed_at = StageNames[g]
            /\ \A m \in Stages : m > g => status[m] = "Pending" /\ cmds[m] = NoCmd

\* the adapter gate failed while fuse and both exports were not skipped
C3_Witness ==
    /\ status[3] = "Failed"
    /\ ~skip(4, args) /\ ~skip(6, args) /\ ~skip(7, args)

\* C4: a stage whose skip predicate is true is never executed: it is
\* Pending or Skipped in every state, its step function is never called
\* and no child process is started for it; and a run whose non-skipped
\* stages all succeeded ends with exit code 0 with the skipped stages
\* Skipped.
C4_SkipNeverRuns ==
    /\ \A n \in Stages :
          skip(n, args) =>
            /\ status[n] \in {"Pending", "Skipped"}
            /\ Count(n, invoked) = 0
            /\ Count(n, spawns) = 0
            /\ cmds[n] = NoCmd
    /\ skip(6, args) => xpc = "idle"
    /\ skip(7, args) => mpc = "idle"
    /\ (pc = "done" /\ \A n \in Stages :
                          ~skip(n, args) => status[n] = "Succeeded")
          => /\ exit_code = 0
             /\ \A n \in Stages : skip(n, args) => status[n] = "Skipped"

\* a re-run with training and fusing skipped, on top of an earlier run's
\* fused model, in which both exports ran and the run succeeded
C4_Witness ==
    /\ pc = "done" /\ exit_code = 0
    /\ args.skip_training /\ args.skip_data
    /\ status[4] = "Skipped"
    /\ status[6] = "Succeeded" /\ status[7] = "Succeeded"

\* C5: stages run one at a time in list order: a Running stage has only
\* Succeeded or Skipped stages before it and only Pending stages after it,
\* no other stage is Running, and the stages were invoked in list order.
C5_Sequential ==
    /\ \A n \in Stages :
          status[n] = "Running" =>
            /\ \A m \in Stages :
                  /\ m < n => status[m] \in {"Succeeded", "Skipped"}
                  /\ m > n => status[m] = "Pending"
            /\ idx = n
    /\ Cardinality({n \in Stages : status[n] = "Running"}) <= 1
    /\ \A j \in 1..Len(invoked) - 1 : invoked[j] < invoked[j + 1]
    /\ StageNames = <<"Generate Data", "Train Adapters", "Test Adapters",
                      "Fuse Model", "Test Fused", "Export ONNX", "Export MLC">>

\* the last stage is Running after all six stages before it succeeded
C5_Witness ==
    /\ status[7] = "Running"
    /\ \A m \in 1..6 : status[m] = "Succeeded"

\* C6 (no retries): every stage is invoked at most once, and a stage that
\* was invoked has had exactly one child process started for it, whether
\* that ended in success or failure.
C6_NoRetries ==
    \A n \in Stages :
        /\ Count(n, invoked) <= 1
        /\ Count(n, spawns) = Count(n, invoked)
        /\ Started(n) <=> Count(n, invoked) = 1

\* a stage failed and its command was run once
C6_Witness ==
    /\ pc = "done"
    /\ status[2] = "Failed"
    /\ Count(2, spawns) = 1
    /\ status[1] = "Succeeded" /\ Count(1, spawns) = 1

\* the artifact directories that appear on a command line
ArtifactArgs(cmd) ==
    CASE cmd.prog = "python/generate_training_data.py" -> {cmd.output_dir}
      [] cmd.prog = "mlx_lm lora" -> {cmd.data, cmd.adapter_path}
      [] cmd.prog = "test_code" -> {cmd.load}
      [] cmd.prog = "mlx_lm fuse" -> {cmd.adapter_path, cmd.save_path}
      [] cmd.prog = "python/export_and_test_onnx.py" -> {cmd.input, cmd.output}
      [] cmd.prog = "python/export_mlc.py" -> {cmd.input, cmd.output}
      [] OTHER -> {}

\* C7 as claimed: every artifact path given to a stage is the base output
\* directory (--output-dir) joined with a suffix.
C7_AllUnderOutputDir ==
    \A n \in Stages :
        \A p \in ArtifactArgs(cmds[n]) :
            IsPrefix(args.output_dir, p) /\ Len(p) > Len(args.output_dir)

\* C7 amended: the fused-model, ONNX and MLC directories are --output-dir
\* joined with the fixed suffixes fused-model, onnx-model and mlc-model;
\* the training-data and adapter directories are the package directory
\* (the parent of the script's directory) joined with training-data and
\* training-output/adapters, whatever --output-dir is; and each consuming
\* stage is given exactly the path its producing stage was given.
C7_PathDerivation ==
    LET data == <<"fine-tune", "training-data">>
        adapters == <<"fine-tune", "training-output", "adapters">>
        fused == args.output_dir \o <<"fused-model">>
        onnx == args.output_dir \o <<"onnx-model">>
        mlc == args.output_dir \o <<"mlc-model">>
    IN  /\ cmds[1] # NoCmd => cmds[1].output_dir = data
        /\ cmds[2] # NoCmd => /\ cmds[2].data = data
                              /\ cmds[2].adapter_path = adapters
        /\ cmds[3] # NoCmd => cmds[3].load = adapters
        /\ cmds[4] # NoCmd => /\ cmds[4].adapter_path = adapters
                              /\ cmds[4].save_path = fused
        /\ cmds[5] # NoCmd => cmds[5].load = fused
        /\ cmds[6] # NoCmd => /\ cmds[6].input = fused
                              /\ cmds[6].output = onnx
        /\ cmds[7] # NoCmd => /\ cmds[7].input = fused
                              /\ cmds[7].output = mlc
        /\ xpc # "idle" => xargs.input = fused /\ xargs.output = onnx
        /\ mpc # "idle" => margs.input = fused /\ margs.output = mlc

\* every stage was given its paths, under a non-default --output-dir
C7_Witness ==
    /\ \A n \in Stages : cmds[n] # NoCmd
    /\ args.output_dir = <<"deploy", "out">>

\* the directories each stage owns
Owned(n, a) ==
    CASE n = 1 -> {a.data_dir}
      [] n = 2 -> {a.adapter_dir}
      [] n = 4 -> {a.fused_dir}
      [] n = 6 -> {a.onnx_dir} \cup {WithSuffix(a.onnx_dir, t) : t \in QuantizeTypes}
      [] n = 7 -> {a.mlc_dir}
      [] OTHER -> {}

\* C8 (ownership, no rollback): a directory changes only in a step of the
\* stage that owns it, while that stage is Running, so a stage only reads
\* the directories of other stages; and the step in which a stage fails
\* changes no directory at all.
C8_Ownership ==
    [][/\ \A p \in DOMAIN art :
             art'[p] # art[p] =>
                \E n \in Stages : /\ status[n] = "Running"
                                  /\ p \in Owned(n, args)
                                  /\ art'[p] = StageNames[n]
       /\ (\E n \in Stages : status[n] # "Failed" /\ status'[n] = "Failed")
             => art' = art
       /\ DOMAIN art' = DOMAIN art]_vars

\* the fuse stage failed after the data and the adapters were written in
\* this run; both are still there
C8_Witness ==
    /\ status[4] = "Failed"
    /\ art[args.data_dir] = "Generate Data"
    /\ art[args.adapter_dir] = "Train Adapters"

\* C9 as claimed: when the smoke check of the export script fails on the
\* exported or on the quantized model, the script exits non-zero and the
\* orchestrator records Export ONNX as Failed.
C9_ExportValidationBlocking ==
    (xpc = "exited" /\ (xres["test"] = "fail" \/ xres["test_quant"] = "fail"))
        => /\ xexit # 0
           /\ status[6] # "Succeeded"

\* C9 amended: the validation of the exported format is advisory.  A
\* failed smoke check on the exported or on the quantized model only prints
\* a warning and the script carries on; the script exits 0 exactly when the
\* export, the requested quantization and the requested node test
\* succeeded, and that exit code alone decides whether the orchestrator
\* records Export ONNX as Succeeded or Failed.
C9_ExportValidationAdvisory ==
    /\ xpc = "exited" =>
        /\ xexit \in {0, 1}
        /\ xexit = 0 <=>
              /\ xres["export"] = "pass"
              /\ xargs.quantize => xres["quantize"] = "pass"
              /\ xargs.test_node => xres["node"] = "pass"
        /\ (xres["test"] = "fail" /\ xargs.quantize)
              => xres["quantize"] # "none"
        /\ (xres["test_quant"] = "fail" /\ xargs.prepare_browser)
              => xres["prepare"] # "none"
    /\ status[6] = "Succeeded" => xpc = "exited" /\ xexit = 0
    /\ status[6] = "Failed" => xpc = "exited" /\ xexit = 1

\* both smoke checks failed and Export ONNX was recorded as Succeeded
C9_Witness ==
    /\ xres["test"] = "fail"
    /\ xres["test_quant"] = "fail"
    /\ status[6] = "Succeeded"

(***************************************************************************)
(* generate_training_data.py: the schema encoder                           *)
(*                                                                         *)
(* A dict is a record for fixed keys (a key may be missing) and a sequence *)
(* of <<key, value>> pairs where the insertion order matters (properties,  *)
(* arguments).  An argument value is [t |-> "str", s |-> ...],             *)
(* [t |-> "int", n |-> ...], [t |-> "bool", b |-> ...],                    *)
(* [t |-> "dict", items |-> ...] or [t |-> "list", elems |-> ...].         *)
(***************************************************************************)
ESC == "<escape>"
NL == "\n"

\* dict.get(key, default)
Get(d, key, default) == IF key \in DOMAIN d THEN d[key] ELSE default

\* sep.join(parts) for token sequences
RECURSIVE Flatten(_)
Flatten(seqs) ==
    IF seqs = <<>> THEN <<>> ELSE Head(seqs) \o Flatten(Tail(seqs))

RECURSIVE JoinSeq(_, _)
JoinSeq(parts, sep) ==
    IF parts = <<>> THEN <<>>
    ELSE IF Len(parts) = 1 THEN parts[1]
    ELSE parts[1] \o sep \o JoinSeq(Tail(parts), sep)

\* str.upper() on the type names of the tool files
upper(str) ==
    CASE str = "string" -> "STRING"
      [] str = "number" -> "NUMBER"
      [] str = "integer" -> "INTEGER"
      [] str = "boolean" -> "BOOLEAN"
      [] str = "object" -> "OBJECT"
      [] str = "array" -> "ARRAY"
      [] OTHER -> str

\* json.dumps of a str: the text between double quotes, with the double
\* quotes, backslashes and newlines in it escaped
QUOTE == "\""
json_escape(tok) ==
    CASE tok = QUOTE -> "\\\""
      [] tok = NL -> "\\n"
      [] OTHER -> tok
json_str(toks) == <<QUOTE>> \o [j \in 1..Len(toks) |-> json_escape(toks[j])]
                  \o <<QUOTE>>

\* json.dumps of an int or a str inside a list
json_scalar(e) == IF e.t = "int" THEN <<ToString(e.n)>> ELSE json_str(<<e.s>>)

\* json.dumps of a dict of strings or a list of scalars
json_dumps(v) ==
    IF v.t = "dict"
    THEN <<"{">>
         \o JoinSeq([j \in 1..Len(v.items) |->
                        json_str(<<v.items[j][1]>>) \o <<": ">>
                            \o json_str(<<v.items[j][2]>>)], <<", ">>)
         \o <<"}">>
    ELSE <<"[">>
         \o JoinSeq([j \in 1..Len(v.elems) |-> json_scalar(v.elems[j])],
                    <<", ">>)
         \o <<"]">>

\* str(v) of a scalar
str(v) ==
    CASE v.t = "int" -> ToString(v.n)
      [] v.t = "bool" -> (IF v.b THEN "True" ELSE "False")
      [] OTHER -> v.s

\* escape_value with str(v) for every value: the repr of a dict or a list
escape_value_StrOfComposite(v) ==
    CASE v.t = "dict" ->
            <<"{">>
            \o JoinSeq([j \in 1..Len(v.items) |->
                           <<"'", v.items[j][1], "'", ": ", "'",
                             v.items[j][2], "'">>], <<", ">>)
            \o <<"}">>
      [] v.t = "list" ->
            <<"[">>
            \o JoinSeq([j \in 1..Len(v.elems) |->
                           IF v.elems[j].t = "int"
                           THEN <<ToString(v.elems[j].n)>>
                           ELSE <<"'", v.elems[j].s, "'">>], <<", ">>)
            \o <<"]">>
      [] OTHER -> <<str(v)>>

\* format_function_call.escape_value
escape_value(v) ==
    CASE v.t \in {"dict", "list"} -> json_dumps(v)
      [] OTHER -> <<str(v)>>

\* format_tool_declaration raises KeyError
format_tool_declaration_raises(tool) ==
    "name" \notin DOMAIN tool \/ "description" \notin DOMAIN tool

\* param_str without the .upper() on the type name
param_str_TypeAsIs(key, val) ==
    <<key, ":", "{", "description:", ESC, Get(val, "description", ""), ESC,
      ",", "type:", ESC, Get(val, "type", "STRING"), ESC>>
    \o (IF "enum" \in DOMAIN val
        THEN <<",", "enum:", "[">>
             \o JoinSeq([j \in 1..Len(val.enum) |-> <<ESC, val.enum[j], ESC>>],
                        <<",">>)
             \o <<"]">>
        ELSE <<>>)
    \o <<"}">>

\* param_str with the enum members joined as they are
param_str_BareEnum(key, val) ==
    <<key, ":", "{", "description:", ESC, Get(val, "description", ""), ESC,
      ",", "type:", ESC, upper(Get(val, "type", "STRING")), ESC>>
    \o (IF "enum" \in DOMAIN val
        THEN <<",", "enum:", "[">>
             \o JoinSeq([j \in 1..Len(val.enum) |-> <<val.enum[j]>>], <<",">>)
             \o <<"]">>
        ELSE <<>>)
    \o <<"}">>

\* one entry of param_items
param_str(key, val) ==
    <<key, ":", "{", "description:", ESC, Get(val, "description", ""), ESC,
      ",", "type:", ESC, upper(Get(val, "type", "STRING")), ESC>>
    \o (IF "enum" \in DOMAIN val
        THEN <<",", "enum:", "[">>
             \o JoinSeq([j \in 1..Len(val.enum) |-> <<ESC, val.enum[j], ESC>>],
                        <<",">>)
             \o <<"]">>
        ELSE <<>>)
    \o <<"}">>

\* format_tool_declaration that puts each new entry of param_items in
\* front of the earlier ones
format_tool_declaration_ParamsReversed(tool) ==
    LET params == Get(tool, "parameters", <<>>)
        properties == Get(params, "properties", <<>>)
        required == Get(params, "required", <<>>)
        n == Len(properties)
        params_str == JoinSeq([j \in 1..n |->
                                  param_str(properties[n + 1 - j][1],
                                            properties[n + 1 - j][2])],
                              <<",">>)
        required_str == JoinSeq([j \in 1..Len(required) |->
                                    <<ESC, required[j], ESC>>], <<",">>)
    IN  <<"<start_function_declaration>", "declaration:", tool.name, "{",
          "description:", ESC, tool.description, ESC, ",", "parameters:", "{">>
        \o params_str
        \o <<"}", ",", "required:", "[">>
        \o required_str
        \o <<"]", ",", "type:", ESC, "OBJECT", ESC, "}",
             "<end_function_declaration>">>

\* format_tool_declaration that leaves an empty required list out
format_tool_declaration_OmitsEmpty(tool) ==
    LET params == Get(tool, "parameters", <<>>)
        properties == Get(params, "properties", <<>>)
        required == Get(params, "required", <<>>)
        params_str == JoinSeq([j \in 1..Len(properties) |->
                                  param_str(properties[j][1],
                                            properties[j][2])], <<",">>)
        required_str == JoinSeq([j \in 1..Len(required) |->
                                    <<ESC, required[j], ESC>>], <<",">>)
    IN  <<"<start_function_declaration>", "declaration:", tool.name, "{",
          "description:", ESC, tool.description, ESC, ",", "parameters:", "{">>
        \o params_str
        \o <<"}", ",">>
        \o (IF required = <<>> THEN <<>>
            ELSE <<"required:", "[">> \o required_str \o <<"]", ",">>)
        \o <<"type:", ESC, "OBJECT", ESC, "}", "<end_function_declaration>">>

\* format_tool_declaration with one "}" too few at the end of the f-string
format_tool_declaration_UnclosedBrace(tool) ==
    LET params == Get(tool, "parameters", <<>>)
        properties == Get(params, "properties", <<>>)
        required == Get(params, "required", <<>>)
        params_str == JoinSeq([j \in 1..Len(properties) |->
                                  param_str(properties[j][1],
                                            properties[j][2])], <<",">>)
        required_str == JoinSeq([j \in 1..Len(required) |->
                                    <<ESC, required[j], ESC>>], <<",">>)
    IN  <<"<start_function_declaration>", "declaration:", tool.name, "{",
          "description:", ESC, tool.description, ESC, ",", "parameters:", "{">>
        \o params_str
        \o <<"}", ",", "required:", "[">>
        \o required_str
        \o <<"]", ",", "type:", ESC, "OBJECT", ESC,
             "<end_function_declaration>">>

format_tool_declaration(tool) ==
    LET params == Get(tool, "parameters", <<>>)
        properties == Get(params, "properties", <<>>)
        required == Get(params, "required", <<>>)
        param_items == [j \in 1..Len(properties) |->
                           param_str(properties[j][1], properties[j][2])]
        params_str == JoinSeq(param_items, <<",">>)
        required_str == JoinSeq([j \in 1..Len(required) |->
                                    <<ESC, required[j], ESC>>], <<",">>)
    IN  <<"<start_function_declaration>", "declaration:", tool.name, "{",
          "description:", ESC, tool.description, ESC, ",", "parameters:", "{">>
        \o params_str
        \o <<"}", ",", "required:", "[">>
        \o required_str
        \o <<"]", ",", "type:", ESC, "OBJECT", ESC, "}",
             "<end_function_declaration>">>

\* format_function_call with the comma written after every item instead
\* of between the items
format_function_call_TrailingComma(name, arguments) ==
    LET args_str == Flatten([j \in 1..Len(arguments) |->
                                <<arguments[j][1], ":", ESC>>
                                \o escape_value(arguments[j][2])
                                \o <<ESC, ",">>])
    IN  <<"<start_function_call>", "call:", name, "{">> \o args_str
        \o <<"}", "<end_function_call>">>

format_function_call(name, arguments) ==
    LET args_str == JoinSeq([j \in 1..Len(arguments) |->
                                <<arguments[j][1], ":", ESC>>
                                \o escape_value(arguments[j][2])
                                \o <<ESC>>],
                            <<",">>)
    IN  <<"<start_function_call>", "call:", name, "{">> \o args_str
        \o <<"}", "<end_function_call>">>

(***************************************************************************)
(* generate_training_data.py: the sample composer                          *)
(***************************************************************************)
Raise(what) == [kind |-> "raise", error |-> what, text |-> <<>>]
ReturnNone == [kind |-> "none", error |-> "", text |-> <<>>]
Sample(text) == [kind |-> "sample", error |-> "", text |-> text]

\* the fixed lines of system_prompt
Preamble ==
    <<"You are a model that can do function calling with the following functions.",
      NL, "Must use the EXACT format: ">>
    \o <<"<start_function_call>", "call:", "name", "{", "arg", ":", ESC, "val",
         ESC, "}", "<end_function_call>">>
    \o <<NL, "Example: ">>
    \o <<"<start_function_call>", "call:", "calculate", "{", "expression", ":",
         ESC, "5*12", ESC, "}", "<end_function_call>">>
    \o <<NL>>

\* generate_training_sample without the "if not tool_calls: return None":
\* an example with no tool call gets a sample with an empty model turn
generate_training_sample_NoDrop(example, tools) ==
    LET tool_calls == Get(example, "expectedToolCalls", <<>>)
        bad_call == /\ Len(tool_calls) > 0
                    /\ \/ "name" \notin DOMAIN tool_calls[1]
                       \/ "arguments" \notin DOMAIN tool_calls[1]
    IN  IF \/ \E j \in 1..Len(tools) : format_tool_declaration_raises(tools[j])
           \/ bad_call
           \/ "userQuery" \notin DOMAIN example
        THEN Raise("KeyError")
        ELSE Sample(
            <<"<bos>", "<start_of_turn>", "developer", NL>>
            \o Preamble
            \o JoinSeq([j \in 1..Len(tools) |-> format_tool_declaration(tools[j])],
                       <<NL>>)
            \o <<"<end_of_turn>", NL, "<start_of_turn>", "user", NL,
                 example.userQuery, "<end_of_turn>", NL,
                 "<start_of_turn>", "model", NL>>
            \o (IF Len(tool_calls) = 0 THEN <<>>
                ELSE format_function_call(tool_calls[1].name,
                                          tool_calls[1].arguments))
            \o <<"<end_of_turn>">>)

\* generate_training_sample with tool_declarations joined by "" instead
\* of "\n"
generate_training_sample_DeclarationsUnbroken(example, tools) ==
    LET tool_calls == Get(example, "expectedToolCalls", <<>>)
    IN  IF \E j \in 1..Len(tools) : format_tool_declaration_raises(tools[j])
        THEN Raise("KeyError")
        ELSE IF Len(tool_calls) = 0 THEN ReturnNone
        ELSE IF \/ "name" \notin DOMAIN tool_calls[1]
                \/ "arguments" \notin DOMAIN tool_calls[1]
                \/ "userQuery" \notin DOMAIN example
        THEN Raise("KeyError")
        ELSE Sample(
            <<"<bos>", "<start_of_turn>", "developer", NL>>
            \o Preamble
            \o Flatten([j \in 1..Len(tools) |->
                           format_tool_declaration(tools[j])])
            \o <<"<end_of_turn>", NL, "<start_of_turn>", "user", NL,
                 example.userQuery, "<end_of_turn>", NL,
                 "<start_of_turn>", "model", NL>>
            \o format_function_call(tool_calls[1].name,
                                    tool_calls[1].arguments)
            \o <<"<end_of_turn>">>)

\* generate_training_sample that renders every expected call, one per
\* line, in the model turn
generate_training_sample_AllCalls(example, tools) ==
    LET tool_calls == Get(example, "expectedToolCalls", <<>>)
    IN  IF \E j \in 1..Len(tools) : format_tool_declaration_raises(tools[j])
        THEN Raise("KeyError")
        ELSE IF Len(tool_calls) = 0 THEN ReturnNone
        ELSE IF \/ \E k \in 1..Len(tool_calls) :
                        \/ "name" \notin DOMAIN tool_calls[k]
                        \/ "arguments" \notin DOMAIN tool_calls[k]
                \/ "userQuery" \notin DOMAIN example
        THEN Raise("KeyError")
        ELSE Sample(
            <<"<bos>", "<start_of_turn>", "developer", NL>>
            \o Preamble
            \o JoinSeq([j \in 1..Len(tools) |-> format_tool_declaration(tools[j])],
                       <<NL>>)
            \o <<"<end_of_turn>", NL, "<start_of_turn>", "user", NL,
                 example.userQuery, "<end_of_turn>", NL,
                 "<start_of_turn>", "model", NL>>
            \o JoinSeq([k \in 1..Len(tool_calls) |->
                           format_function_call(tool_calls[k].name,
                                                tool_calls[k].arguments)],
                       <<NL>>)
            \o <<"<end_of_turn>">>)

generate_training_sample(example, tools) ==
    IF \E j \in 1..Len(tools) : format_tool_declaration_raises(tools[j])
    THEN Raise("KeyError")
    ELSE
    LET tool_declarations ==
            JoinSeq([j \in 1..Len(tools) |-> format_tool_declaration(tools[j])],
                    <<NL>>)
        system_prompt == Preamble \o tool_declarations
        tool_calls == Get(example, "expectedToolCalls", <<>>)
    IN  IF Len(tool_calls) = 0 THEN ReturnNone
        ELSE
        LET tc == tool_calls[1]
        IN  IF "name" \notin DOMAIN tc \/ "arguments" \notin DOMAIN tc
            THEN Raise("KeyError")
            ELSE IF "userQuery" \notin DOMAIN example
            THEN Raise("KeyError")
            ELSE Sample(
                <<"<bos>", "<start_of_turn>", "developer", NL>>
                \o system_prompt
                \o <<"<end_of_turn>", NL, "<start_of_turn>", "user", NL,
                     example.userQuery, "<end_of_turn>", NL,
                     "<start_of_turn>", "model", NL>>
                \o format_function_call(tc.name, tc.arguments)
                \o <<"<end_of_turn>">>)

(***************************************************************************)
(* generate_training_data.py: main                                         *)
(***************************************************************************)
\* the longest tool list and the longest example list of the input files
MaxTools == 2
MaxExamples == 2

T_calculate ==
    [name |-> "calculate", description |-> "Math",
     parameters |->
        [type |-> "object",
         properties |-> <<<<"expression",
                            [type |-> "string", description |-> "Expr"]>>>>,
         required |-> <<"expression">>]]
T_get_weather ==
    [name |-> "get_weather", description |-> "Weather",
     parameters |->
        [properties |-> <<<<"unit", [type |-> "string", description |-> "Unit",
                                     enum |-> <<"c", "f">>]>>,
                          <<"city", [description |-> "City"]>>>>]]
T_get_time == [name |-> "get_time", description |-> "Time"]
T_no_description == [name |-> "broken"]
ToolPool == {T_calculate, T_get_weather, T_get_time, T_no_description}

E_calculate ==
    [userQuery |-> "What is 5 * 12?",
     expectedToolCalls |->
        <<[name |-> "calculate",
           arguments |-> <<<<"expression", [t |-> "str", s |-> "5 * 12"]>>>>]>>]
E_no_calls == [userQuery |-> "Hello", expectedToolCalls |-> <<>>]
E_no_key == [userQuery |-> "Hi"]
E_two_calls ==
    [userQuery |-> "Time and data",
     expectedToolCalls |->
        <<[name |-> "get_time", arguments |-> <<>>],
          [name |-> "send",
           arguments |-> <<<<"data", [t |-> "dict",
                                      items |-> <<<<"key", "value">>>>]>>,
                           <<"count", [t |-> "int", n |-> 3]>>>>]>>]
E_no_query ==
    [expectedToolCalls |-> <<[name |-> "get_time", arguments |-> <<>>]>>]
\* the call of the "Example:" line of system_prompt
E_prompt_call ==
    [userQuery |-> "Compute 5*12",
     expectedToolCalls |->
        <<[name |-> "calculate",
           arguments |-> <<<<"expression", [t |-> "str", s |-> "5*12"]>>>>]>>]
ExamplePool ==
    {E_calculate, E_no_calls, E_no_key, E_two_calls, E_no_query, E_prompt_call}

\* the sequences over S of length at most n
SeqsUpTo(S, n) == UNION {[1..k -> S] : k \in 0..n}

\* values of --seed and of --train-split (the decimal text of the command
\* line)
Seeds == {42, 7}
TrainSplits == {"0.85", "0.5"}

\* type=float of --train-split: the double nearest to the decimal text, as
\* [a, b, c, s] for (a * 2^36 + b * 2^18 + c) * 2^-s, a 53-bit significand
float(text) ==
    CASE text = "0.85" ->
            [a |-> 111411, b |-> 52428, c |-> 209715, s |-> 53]
      [] text = "0.5" -> [a |-> 65536, b |-> 0, c |-> 0, s |-> 53]
      [] text = "0.7" ->
            [a |-> 91750, b |-> 104857, c |-> 157286, s |-> 53]
      [] text = "0.58" ->
            [a |-> 76021, b |-> 199229, c |-> 115343, s |-> 53]
      [] text = "0.3333333333333333" ->
            [a |-> 87381, b |-> 87381, c |-> 87381, s |-> 54]
      [] text = "0.02" ->
            [a |-> 83886, b |-> 20971, c |-> 136315, s |-> 58]

\* the stream of the seeded generator: the k-th draw below n
randbelow(seed, k, n) == ((seed + 1) * (k + 3) * 7919) % n

\* random.seed(seed); random.shuffle(x): for i from len(x)-1 down to 1,
\* swap x[i] and x[j] for a drawn j <= i (positions counted from 0)
RECURSIVE shuffle_from(_, _, _)
shuffle_from(x, seed, i) ==
    IF i < 1 THEN x
    ELSE LET j == randbelow(seed, Len(x) - i, i + 1)
             swapped == [x EXCEPT ![i + 1] = x[j + 1], ![j + 1] = x[i + 1]]
         IN  shuffle_from(swapped, seed, i - 1)
shuffle(x, seed) == shuffle_from(x, seed, Len(x) - 1)

RECURSIVE bit_length(_)
bit_length(n) == IF n = 0 THEN 0 ELSE 1 + bit_length(n \div 2)

\* int(n * x) for an int n and a double x: the exact product in three
\* 18-bit limbs, rounded to 53 significant bits (to nearest, ties to
\* even) as the double multiplication does, then truncated
int_of_product(n, x) ==
    IF n = 0 THEN 0
    ELSE
    LET limb == 2^18
        pc0 == n * x.c
        pb0 == n * x.b + pc0 \div limb
        pa0 == n * x.a + pb0 \div limb
        c0 == pc0 % limb
        b0 == pb0 % limb
        unit == 2^(bit_length(pa0) - 17)
        q == c0 \div unit
        rem == c0 % unit
        up == 2 * rem > unit \/ (2 * rem = unit /\ q % 2 = 1)
        c1 == (q + IF up THEN 1 ELSE 0) * unit
        b1 == b0 + c1 \div limb
        a1 == pa0 + b1 \div limb
    IN  a1 \div 2^(x.s - 36)

\* int(len(training_data) * args.train_split)
split_idx(n, train_split) == int_of_product(n, train_split)

\* json.dumps(item) for item = {"text": text}
json_line(item) == <<"{", QUOTE, "text", QUOTE, ": ">> \o json_str(item.text)
                   \o <<"}">>

\* a name bound to nothing yet
Unbound == <<"unbound">>

NoFiles == [output_dir |-> "missing", train |-> <<"missing">>,
            valid |-> <<"missing">>]

DReturn(code) == dexit' = code /\ dpc' = "exited"
\* an uncaught exception ends the interpreter with exit code 1
DCrash == dexit' = 1 /\ dpc' = "crashed"

\* DValidate without the test of the examples path
DValidate_ExamplesUnchecked ==
    /\ dpc = "validate"
    /\ IF ~dargs.tools_exists
       THEN DReturn(1)
       ELSE dpc' = "load" /\ dexit' = dexit
    /\ UNCHANGED <<dargs, dk, training_data, train_data, valid_data, dfiles,
                   last_sample, dtools, dexamples>>
    /\ UNCHANGED <<ovars, xvars, mvars, evars>>

\* "Validate input files"
DValidate ==
    /\ dpc = "validate"
    /\ IF ~dargs.tools_exists \/ ~dargs.examples_exists
       THEN DReturn(1)
       ELSE dpc' = "load" /\ dexit' = dexit
    /\ UNCHANGED <<dargs, dk, training_data, train_data, valid_data, dfiles,
                   last_sample, dtools, dexamples>>
    /\ UNCHANGED <<ovars, xvars, mvars, evars>>

\* "Load data": load_tools and load_examples; json.load raises on a file
\* that is not JSON
DLoad ==
    /\ dpc = "load"
    /\ IF ~dargs.parses
       THEN DCrash /\ UNCHANGED <<dtools, dexamples>>
       ELSE /\ dtools' = dargs.tools
            /\ dexamples' = dargs.examples
            /\ dpc' = "generate" /\ dexit' = dexit
    /\ UNCHANGED <<dargs, dk, training_data, train_data, valid_data, dfiles,
                   last_sample>>
    /\ UNCHANGED <<ovars, xvars, mvars, evars>>

\* "Generate training data": one turn of the loop over examples, and the
\* end of the loop
DGenerate ==
    /\ dpc = "generate"
    /\ IF dk < Len(dexamples)
       THEN LET sample == generate_training_sample(dexamples[dk + 1], dtools)
            IN  /\ dk' = dk + 1
                /\ last_sample' = sample
                /\ IF sample.kind = "raise"
                   THEN DCrash /\ UNCHANGED training_data
                   ELSE /\ training_data' =
                              IF sample.kind = "sample"
                              THEN Append(training_data, [text |-> sample.text])
                              ELSE training_data
                        /\ UNCHANGED <<dpc, dexit>>
       ELSE /\ dpc' = "split"
            /\ UNCHANGED <<dk, last_sample, training_data, dexit>>
    /\ UNCHANGED <<dargs, train_data, valid_data, dfiles, dtools, dexamples>>
    /\ UNCHANGED <<ovars, xvars, mvars, evars>>

\* "Shuffle and split"
DShuffleSplit ==
    /\ dpc = "split"
    /\ LET shuffled == shuffle(training_data, dargs.seed)
           k == split_idx(Len(shuffled), dargs.train_split)
       IN  /\ training_data' = shuffled
           /\ train_data' = SubSeq(shuffled, 1, k)
           /\ valid_data' = SubSeq(shuffled, k + 1, Len(shuffled))
    /\ dpc' = "write"
    /\ UNCHANGED <<dargs, dexit, dk, dfiles, last_sample, dtools, dexamples>>
    /\ UNCHANGED <<ovars, xvars, mvars, evars>>

\* "Create output directory", "Write output files"
DWrite ==
    /\ dpc = "write"
    /\ dfiles' = [output_dir |-> "created",
                  train |-> [j \in 1..Len(train_data) |->
                                json_line(train_data[j])],
                  valid |-> [j \in 1..Len(valid_data) |->
                                json_line(valid_data[j])]]
    /\ dpc' = "report"
    /\ UNCHANGED <<dargs, dexit, dk, training_data, train_data, valid_data,
                   last_sample, dtools, dexamples>>
    /\ UNCHANGED <<ovars, xvars, mvars, evars>>

\* "Print a sample": training_data[0] raises IndexError on an empty list;
\* then return 0
DReport ==
    /\ dpc = "report"
    /\ IF Len(training_data) = 0 THEN DCrash ELSE DReturn(0)
    /\ UNCHANGED <<dargs, dk, training_data, train_data, valid_data, dfiles,
                   last_sample, dtools, dexamples>>
    /\ UNCHANGED <<ovars, xvars, mvars, evars>>

\* the orchestrator is not running
OStopped ==
    /\ args = SetUpPaths(CHOOSE parsed \in ParsedArgs :
                            /\ parsed.output_dir = <<"working">>
                            /\ \A f \in {"skip_data", "skip_training",
                                          "skip_tests", "skip_onnx", "skip_mlc",
                                          "quantize", "compile_mlc"} : ~parsed[f])
    /\ pc = "idle" /\ idx = 0
    /\ status = [n \in Stages |-> "Pending"]
    /\ invoked = <<>> /\ spawns = <<>>
    /\ cmds = [n \in Stages |-> NoCmd]
    /\ proc = "none" /\ rc = 0 /\ exit_code = NotExited /\ failed_at = ""
    /\ summary = NoOutputs

\* the orchestrator is not running and nothing has been written
OIdle == OStopped /\ art = PreRunFs(args, 0)

\* the command line and the input files of the dataset builder; the
\* content of a file that is missing or does not parse is of no account
DataInput(te, ee, ps, ts, es, sd, f) ==
    [tools_exists |-> te, examples_exists |-> ee, parses |-> ps,
     tools |-> IF te /\ ee /\ ps THEN ts ELSE <<>>,
     examples |-> IF te /\ ee /\ ps THEN es ELSE <<>>,
     seed |-> sd, train_split_arg |-> f, train_split |-> float(f)]

\* main is entered: nothing generated, nothing written
DStart ==
    /\ dpc = "validate"
    /\ dexit = NotExited
    /\ dk = 0
    /\ training_data = <<>>
    /\ train_data = <<>>
    /\ valid_data = <<>>
    /\ dfiles = NoFiles
    /\ last_sample = ReturnNone
    /\ dtools = Unbound
    /\ dexamples = Unbound

\* the dataset builder has parsed its command line
InitData ==
    /\ \E te \in BOOLEAN, ee \in BOOLEAN, ps \in BOOLEAN,
          ts \in SeqsUpTo(ToolPool, MaxTools),
          es \in SeqsUpTo(ExamplePool, MaxExamples),
          sd \in Seeds, f \in TrainSplits :
            /\ (~te \/ ~ee \/ ~ps) =>
                    /\ ts = <<>> /\ es = <<>>
                    /\ sd = 42 /\ f = "0.85"
            /\ dargs = DataInput(te, ee, ps, ts, es, sd, f)
    /\ DStart
    /\ OIdle /\ XIdle /\ MIdle /\ EIdle

NextData ==
    \/ DValidate
    \/ DLoad
    \/ DGenerate
    \/ DShuffleSplit
    \/ DWrite
    \/ DReport

SpecData == InitData /\ [][NextData]_vars

\* the largest example file of the runs that look at the split
MaxSamples == 50
SplitFractions == {"0.85", "0.7", "0.58"}

\* the i-th example of a file in which every example has a tool call
E_numbered(i) ==
    [userQuery |-> ToString(i),
     expectedToolCalls |-> <<[name |-> "get_time", arguments |-> <<>>]>>]

\* the dataset builder has parsed its command line; the example file
\* holds n examples, each with a call
InitSplit ==
    /\ \E n \in 1..MaxSamples, f \in SplitFractions :
            dargs = DataInput(TRUE, TRUE, TRUE, <<T_get_time>>,
                              [i \in 1..n |-> E_numbered(i)], 42, f)
    /\ DStart
    /\ OIdle /\ XIdle /\ MIdle /\ EIdle

SpecSplit == InitSplit /\ [][NextData]_vars

\* train fractions at which a partition may come out empty
EdgeFractions == {"0.3333333333333333", "0.02", "0.5"}

\* the dataset builder has parsed a command line with one of them
InitSplitEdge ==
    /\ \E n \in 1..MaxSamples, f \in EdgeFractions :
            dargs = DataInput(TRUE, TRUE, TRUE, <<T_get_time>>,
                              [i \in 1..n |-> E_numbered(i)], 42, f)
    /\ DStart
    /\ OIdle /\ XIdle /\ MIdle /\ EIdle

SpecSplitEdge == InitSplitEdge /\ [][NextData]_vars

(***************************************************************************)
(* generate_training_data.py: format_tool_declaration and                  *)
(* format_function_call called on their own                                *)
(***************************************************************************)
\* the most properties, required names and arguments of one call
MaxParams == 2
MaxRequired == 2
MaxArgs == 2

\* the sequences over S of length at most n without a repeated element
\* (the keys of a dict, in insertion order)
KeySeqs(S, n) ==
    {ks \in SeqsUpTo(S, n) :
        \A i \in 1..Len(ks), j \in 1..Len(ks) : i # j => ks[i] # ks[j]}

ParamKeys == {"query", "limit", "unit"}
ParamPool ==
    {[type |-> "integer", description |-> "Max results"],
     [type |-> "string", description |-> "Temperature unit",
      enum |-> <<"celsius", "fahrenheit">>],
     [description |-> "City"],
     [type |-> "number"]}

ArgKeys == {"query", "limit", "data"}
ArgValues ==
    {[t |-> "str", s |-> "weather"],
     [t |-> "int", n |-> 5],
     [t |-> "bool", b |-> TRUE],
     [t |-> "dict", items |-> <<<<"key", "value">>>>],
     [t |-> "list", elems |-> <<[t |-> "int", n |-> 1],
                                [t |-> "str", s |-> "x"]>>]}
CallNames == {"get_time", "search"}

\* a tool with a name and a description and, if has_params, a parameters
\* object with the keys properties (if has_props) and required (if has_req)
MakeTool(has_params, has_props, props, has_req, req) ==
    LET parameters ==
            CASE has_props /\ has_req ->
                    [type |-> "object", properties |-> props,
                     required |-> req]
              [] has_props /\ ~has_req -> [properties |-> props]
              [] ~has_props /\ has_req -> [required |-> req]
              [] OTHER -> <<>>
    IN  IF has_params
        THEN [name |-> "search", description |-> "Search the web",
              parameters |-> parameters]
        ELSE [name |-> "search", description |-> "Search the web"]

Returned(text) == [kind |-> "return", error |-> "", text |-> text]

EStart == epc = "ready" /\ ecall = <<>> /\ eret = <<>> /\ efs = <<>>

\* result = format_tool_declaration(tool)
CallDeclaration(tool) ==
    /\ epc = "ready"
    /\ ecall' = [fn |-> "format_tool_declaration", tool |-> tool]
    /\ eret' = IF format_tool_declaration_raises(tool)
               THEN Raise("KeyError")
               ELSE Returned(format_tool_declaration(tool))
    /\ epc' = "returned"
    /\ UNCHANGED <<efs, ovars, xvars, mvars, dvars>>

EDeclaration ==
    \/ \E tool \in {T_get_time, T_no_description} : CallDeclaration(tool)
    \/ \E has_props \in BOOLEAN, has_req \in BOOLEAN,
          ks \in KeySeqs(ParamKeys, MaxParams),
          req \in KeySeqs(ParamKeys, MaxRequired) :
            /\ ~has_props => ks = <<>>
            /\ ~has_req => req = <<>>
            /\ \E vs \in [1..Len(ks) -> ParamPool] :
                    CallDeclaration(
                        MakeTool(TRUE, has_props,
                                 [j \in 1..Len(ks) |-> <<ks[j], vs[j]>>],
                                 has_req, req))

\* result = format_function_call(name, args)
ECall ==
    /\ epc = "ready"
    /\ \E name \in CallNames, ks \in KeySeqs(ArgKeys, MaxArgs) :
         \E vs \in [1..Len(ks) -> ArgValues] :
            LET arguments == [j \in 1..Len(ks) |-> <<ks[j], vs[j]>>]
            IN  /\ ecall' = [fn |-> "format_function_call", name |-> name,
                             arguments |-> arguments]
                /\ eret' = Returned(format_function_call(name, arguments))
    /\ epc' = "returned"
    /\ UNCHANGED <<efs, ovars, xvars, mvars, dvars>>

InitEncode == EStart /\ OIdle /\ XIdle /\ MIdle /\ DIdle

NextEncode == EDeclaration \/ ECall

SpecEncode == InitEncode /\ [][NextEncode]_vars

(***************************************************************************)
(* export_and_test_onnx.py run from the command line, and its functions    *)
(* called on a model directory                                             *)
(***************************************************************************)
\* the export script was started by hand after an earlier run of the
\* pipeline that got through its first k outputs
XStart ==
    /\ OStopped
    /\ \E k \in 0..Len(PreOrder(args)) : art = PreRunFs(args, k)
    /\ xargs \in [input : {args.fused_dir}, output : {args.onnx_dir},
                  quantize : BOOLEAN, quantize_type : QuantizeTypes,
                  quantize_output : {NoPath, WithSuffix(args.onnx_dir, "int8")},
                  no_test : BOOLEAN,
                  test_node : BOOLEAN, prepare_browser : BOOLEAN]
    /\ xpc = "validate" /\ xexit = NotExited
    /\ xlog = <<>> /\ xres = XNoRes /\ xon = XNoOn
    /\ final_model_path = NoPath

InitExport ==
    \/ FStart /\ OIdle /\ XIdle /\ MIdle /\ DIdle
    \/ XStart /\ MIdle /\ DIdle /\ EIdle

NextExport ==
    \/ XValidateInput
    \/ XExport
    \/ XTest
    \/ XQuantize
    \/ XTestQuant
    \/ XPrepareBrowser
    \/ XNodeTest
    \/ FQuantize
    \/ FTestInference
    \/ FPrepareBrowser
    \/ FPrepareAgain

SpecExport == InitExport /\ [][NextExport]_vars

(***************************************************************************)
(* Properties of the sample composer                                       *)
(***************************************************************************)
\* the example generate_training_sample was applied to last
LastExample == dargs.examples[dk]
\* expectedToolCalls of an example is empty (a missing key reads as [])
NoToolCalls(example) == Len(Get(example, "expectedToolCalls", <<>>)) = 0
WellFormed(tool) == "name" \in DOMAIN tool /\ "description" \in DOMAIN tool

\* C10 as claimed: for any example and any tool list,
\* generate_training_sample returns None if and only if expectedToolCalls
\* is empty, and does not raise in that case.
C10_DropLawAnyTools ==
    dk >= 1 => (last_sample.kind = "none" <=> NoToolCalls(LastExample))

\* C10 amended (drop law): for any example and any list of well-formed
\* tools (each with a name and a description), generate_training_sample
\* returns None if and only if expectedToolCalls is empty, and does not
\* raise in that case; with a malformed tool in the list it raises
\* KeyError whatever the example is.
C10_DropLaw ==
    dk >= 1 =>
        /\ (\A j \in 1..Len(dargs.tools) : WellFormed(dargs.tools[j]))
              => (last_sample.kind = "none" <=> NoToolCalls(LastExample))
        /\ (\E j \in 1..Len(dargs.tools) : ~WellFormed(dargs.tools[j]))
              => last_sample.kind = "raise"

\* an example with a call gave a sample and then an example with no call
\* gave None, with two tools declared
C10_Witness ==
    /\ dk = 2
    /\ dargs.examples = <<E_calculate, E_no_calls>>
    /\ Len(dargs.tools) = 2
    /\ last_sample.kind = "none"
    /\ Len(training_data) = 1

(***************************************************************************)
(* Properties of the dataset builder                                       *)
(***************************************************************************)
\* the split has been made
SplitDone == dpc \in {"write", "report", "exited"}

\* the value of a two-digit decimal text, in hundredths
Hundredths(text) ==
    CASE text = "0.85" -> 85
      [] text = "0.5" -> 50
      [] text = "0.7" -> 70
      [] text = "0.58" -> 58
      [] text = "0.02" -> 2

\* C11 (split law): for every dataset of N >= 1 samples and every train
\* fraction 0 < f < 1, len(train) = floor(N * f) and
\* len(train) + len(valid) = N; train is the first floor(N * f) elements
\* of the shuffled sequence and valid is the rest.
C11_SplitLaw ==
    (SplitDone /\ Len(training_data) >= 1) =>
        LET N == Len(training_data)
            k == (N * Hundredths(dargs.train_split_arg)) \div 100
        IN  /\ Len(train_data) = k
            /\ Len(train_data) + Len(valid_data) = N
            /\ train_data = SubSeq(training_data, 1, k)
            /\ valid_data = SubSeq(training_data, k + 1, N)

\* main has ended in a fatal error: a non-zero return or an uncaught
\* exception
DFatal == dpc = "crashed" \/ (dpc = "exited" /\ dexit # 0)

\* C12 (no partial output): if the dataset builder ends in a fatal error
\* (missing path, malformed input, malformed example or tool, or an empty
\* sample set), then neither train.jsonl nor valid.jsonl has been written
\* in that run.
C12_NoPartialOutput ==
    DFatal => (dfiles.train = NoFiles.train /\ dfiles.valid = NoFiles.valid)

\* C13: if the tools path or the examples path does not exist, the dataset
\* builder exits with code 1 without loading anything, without creating
\* the output directory and without writing any file.
C13_MissingPath ==
    ((~dargs.tools_exists \/ ~dargs.examples_exists) /\ dpc # "validate") =>
        /\ dpc = "exited" /\ dexit = 1
        /\ dtools = Unbound /\ dexamples = Unbound
        /\ dfiles = NoFiles

\* the tools file is there, the examples file is not, and main has returned
C13_Witness ==
    /\ dargs.tools_exists /\ ~dargs.examples_exists
    /\ dpc = "exited" /\ dexit = 1

(***************************************************************************)
(* Properties of format_tool_declaration and format_function_call          *)
(***************************************************************************)
DeclarationReturned ==
    epc = "returned" /\ ecall.fn = "format_tool_declaration"
        /\ eret.kind = "return"
CallReturned ==
    epc = "returned" /\ ecall.fn = "format_function_call"
        /\ eret.kind = "return"

StartsWith(text, head) ==
    Len(text) >= Len(head) /\ SubSeq(text, 1, Len(head)) = head
EndsWith(text, tail) ==
    Len(text) >= Len(tail)
        /\ SubSeq(text, Len(text) - Len(tail) + 1, Len(text)) = tail

\* C15 (grammar well-formedness): for every well-formed tool the output of
\* format_tool_declaration starts with
\* '<start_function_declaration>declaration:' and ends with
\* '}<end_function_declaration>'; for every name and argument mapping the
\* output of format_function_call starts with '<start_function_call>call:'
\* and ends with '}<end_function_call>'.
C15_Grammar ==
    /\ (epc = "returned" /\ ecall.fn = "format_tool_declaration"
            /\ WellFormed(ecall.tool)) =>
          /\ eret.kind = "return"
          /\ StartsWith(eret.text,
                        <<"<start_function_declaration>", "declaration:">>)
          /\ EndsWith(eret.text, <<"}", "<end_function_declaration>">>)
    /\ (epc = "returned" /\ ecall.fn = "format_function_call") =>
          /\ eret.kind = "return"
          /\ StartsWith(eret.text, <<"<start_function_call>", "call:">>)
          /\ EndsWith(eret.text, <<"}", "<end_function_call>">>)

\* a declaration of a tool with two parameters and a required name has
\* been rendered
C15_Witness ==
    /\ DeclarationReturned
    /\ "parameters" \in DOMAIN ecall.tool
    /\ "properties" \in DOMAIN ecall.tool.parameters
    /\ "required" \in DOMAIN ecall.tool.parameters
    /\ Len(ecall.tool.parameters.properties) = 2
    /\ Len(ecall.tool.parameters.required) = 1

\* the position of the first <escape> of text at or after position i
\* (Len(text) + 1 if there is none)
RECURSIVE NextEsc(_, _)
NextEsc(text, i) ==
    IF i > Len(text) \/ text[i] = ESC THEN i ELSE NextEsc(text, i + 1)

\* what stands between the 1st and 2nd, the 3rd and 4th, ... <escape> of
\* text
RECURSIVE WrappedFrom(_, _)
WrappedFrom(text, i) ==
    LET open == NextEsc(text, i)
        close == NextEsc(text, open + 1)
    IN  IF open > Len(text) THEN <<>>
        ELSE <<SubSeq(text, open + 1, close - 1)>>
                \o WrappedFrom(text, close + 1)
Wrapped(text) == WrappedFrom(text, 1)

\* the free-text fields of a declaration, in the order of the grammar
ParamFields(val) ==
    <<Get(val, "description", ""), upper(Get(val, "type", "STRING"))>>
        \o Get(val, "enum", <<>>)
DeclarationFields(tool) ==
    LET params == Get(tool, "parameters", <<>>)
        properties == Get(params, "properties", <<>>)
    IN  <<tool.description>>
        \o Flatten([j \in 1..Len(properties) |->
                        ParamFields(properties[j][2])])
        \o Get(params, "required", <<>>)
        \o <<"OBJECT">>

\* C16 (escaping invariant): in the output of format_tool_declaration and
\* of format_function_call every free-text field (tool description,
\* parameter description, type name, enum member, required name, argument
\* value) stands between one <escape> and the next exactly once, never
\* doubly wrapped and never unwrapped, and the number of <escape> tokens
\* is twice the number of free-text fields.
C16_Escaping ==
    /\ DeclarationReturned =>
          LET fields == DeclarationFields(ecall.tool)
          IN  /\ Count(ESC, eret.text) = 2 * Len(fields)
              /\ Wrapped(eret.text) = [j \in 1..Len(fields) |-> <<fields[j]>>]
    /\ CallReturned =>
          LET arguments == ecall.arguments
          IN  /\ Count(ESC, eret.text) = 2 * Len(arguments)
              /\ Wrapped(eret.text) =
                    [j \in 1..Len(arguments) |->
                        escape_value(arguments[j][2])]

\* a declaration with an enum parameter and a required name has been
\* rendered
C16_Witness ==
    /\ DeclarationReturned
    /\ "parameters" \in DOMAIN ecall.tool
    /\ "properties" \in DOMAIN ecall.tool.parameters
    /\ "required" \in DOMAIN ecall.tool.parameters
    /\ \E j \in 1..Len(ecall.tool.parameters.properties) :
            "enum" \in DOMAIN ecall.tool.parameters.properties[j][2]
    /\ Len(ecall.tool.parameters.required) >= 1

\* the items, with sep between each two neighbours
RECURSIVE Separated(_, _)
Separated(items, sep) ==
    IF items = <<>> THEN <<>>
    ELSE Head(items)
         \o (IF Len(items) = 1 THEN <<>>
             ELSE sep \o Separated(Tail(items), sep))

\* C17 (empty-call law): for any name n, format_function_call(n, {}) is
\* exactly '<start_function_call>call:' n '{}<end_function_call>', and a
\* call with k arguments renders exactly k items
\* 'key:<escape>value<escape>' separated by commas inside the braces.
C17_EmptyCall ==
    CallReturned =>
        LET arguments == ecall.arguments
            items == [j \in 1..Len(arguments) |->
                        <<arguments[j][1], ":", ESC>>
                        \o escape_value(arguments[j][2]) \o <<ESC>>]
        IN  /\ arguments = <<>> =>
                    eret.text = <<"<start_function_call>", "call:",
                                  ecall.name, "{", "}", "<end_function_call>">>
            /\ eret.text = <<"<start_function_call>", "call:", ecall.name,
                             "{">>
                           \o Separated(items, <<",">>)
                           \o <<"}", "<end_function_call>">>
            /\ Count(",", eret.text) = IF Len(arguments) = 0 THEN 0
                                       ELSE Len(arguments) - 1

\* format_function_call("get_time", {}) has returned
C17_Witness ==
    CallReturned /\ ecall.name = "get_time" /\ ecall.arguments = <<>>

\* sub occurs in text as a run of neighbouring tokens
Contains(text, sub) ==
    \E i \in 1..(Len(text) - Len(sub) + 1) :
        SubSeq(text, i, i + Len(sub) - 1) = sub

\* the tool has no parameter / no required name to declare
NoProperties(tool) ==
    Len(Get(Get(tool, "parameters", <<>>), "properties", <<>>)) = 0
NoRequired(tool) ==
    Len(Get(Get(tool, "parameters", <<>>), "required", <<>>)) = 0

\* C18: for a tool whose parameters object is absent or empty, or lacks
\* properties or required, format_tool_declaration still emits
\* 'parameters:{}' and/or 'required:[]'; the parameters and required
\* fields are never omitted from a declaration.
C18_NeverOmitted ==
    DeclarationReturned =>
        /\ Count("parameters:", eret.text) = 1
        /\ Count("required:", eret.text) = 1
        /\ NoProperties(ecall.tool) =>
                Contains(eret.text, <<"parameters:", "{", "}", ",">>)
        /\ NoRequired(ecall.tool) =>
                Contains(eret.text, <<"required:", "[", "]", ",">>)

\* a declaration of a tool whose parameters object is empty has been
\* rendered
C18_Witness ==
    /\ DeclarationReturned
    /\ "parameters" \in DOMAIN ecall.tool
    /\ DOMAIN ecall.tool.parameters = {}

\* a type name of the tool files and the same name in upper case
UpperCased ==
    {<<"string", "STRING">>, <<"number", "NUMBER">>, <<"integer", "INTEGER">>,
     <<"boolean", "BOOLEAN">>, <<"object", "OBJECT">>, <<"array", "ARRAY">>}

\* the properties of the tool the caller passed
CalledProperties ==
    Get(Get(ecall.tool, "parameters", <<>>), "properties", <<>>)

\* C19: in a declaration every parameter's type name is rendered
\* upper-cased, a parameter with no type is rendered with type STRING,
\* and the declaration itself always carries type OBJECT.
C19_TypeNames ==
    DeclarationReturned =>
        /\ \A j \in 1..Len(CalledProperties) :
              LET key == CalledProperties[j][1]
                  val == CalledProperties[j][2]
              IN  \E rendered \in {"STRING"} \cup {u[2] : u \in UpperCased} :
                    /\ Contains(eret.text,
                                <<key, ":", "{", "description:", ESC,
                                  Get(val, "description", ""), ESC, ",",
                                  "type:", ESC, rendered, ESC>>)
                    /\ IF "type" \in DOMAIN val
                       THEN <<val.type, rendered>> \in UpperCased
                       ELSE rendered = "STRING"
        /\ EndsWith(eret.text, <<",", "type:", ESC, "OBJECT", ESC, "}",
                                 "<end_function_declaration>">>)

\* a declaration with a parameter of type integer and a parameter without
\* a type has been rendered
C19_Witness ==
    /\ DeclarationReturned
    /\ Len(CalledProperties) = 2
    /\ "type" \in DOMAIN CalledProperties[1][2]
    /\ CalledProperties[1][2].type = "integer"
    /\ "type" \notin DOMAIN CalledProperties[2][2]

\* the tokens of text, from position i on, that are followed by the two
\* tokens of follow, in the order in which they stand
RECURSIVE FollowedBy(_, _, _)
FollowedBy(text, follow, i) ==
    IF i + 2 > Len(text) THEN <<>>
    ELSE (IF <<text[i + 1], text[i + 2]>> = follow THEN <<text[i]>> ELSE <<>>)
         \o FollowedBy(text, follow, i + 1)

\* C20 (order preservation): the parameters of a declaration appear in the
\* iteration (insertion) order of the properties mapping, the required
\* list appears verbatim in its given order with each name
\* escape-wrapped, and the arguments of a call appear in the iteration
\* order of the arguments mapping.
C20_Order ==
    /\ DeclarationReturned =>
          LET required == Get(Get(ecall.tool, "parameters", <<>>),
                              "required", <<>>)
          IN  /\ FollowedBy(eret.text, <<":", "{">>, 1) =
                    [j \in 1..Len(CalledProperties) |->
                        CalledProperties[j][1]]
              /\ Contains(eret.text,
                          <<"required:", "[">>
                          \o Separated([j \in 1..Len(required) |->
                                           <<ESC, required[j], ESC>>], <<",">>)
                          \o <<"]">>)
    /\ CallReturned =>
          FollowedBy(eret.text, <<":", ESC>>, 1) =
              [j \in 1..Len(ecall.arguments) |-> ecall.arguments[j][1]]

\* a declaration with two parameters and two different required names has
\* been rendered
C20_Witness ==
    /\ DeclarationReturned
    /\ Len(CalledProperties) = 2
    /\ "required" \in DOMAIN ecall.tool.parameters
    /\ Len(ecall.tool.parameters.required) = 2
    /\ ecall.tool.parameters.required[1] # ecall.tool.parameters.required[2]

\* the JSON text of a string: the string between double quotes
Quoted(string) == <<QUOTE, string, QUOTE>>

\* the JSON text of a mapping of strings or of a sequence of integers and
\* strings, with ", " between the items and ": " after a key
JsonText(v) ==
    IF v.t = "dict"
    THEN <<"{">>
         \o Separated([j \in 1..Len(v.items) |->
                          Quoted(v.items[j][1]) \o <<": ">>
                              \o Quoted(v.items[j][2])], <<", ">>)
         \o <<"}">>
    ELSE <<"[">>
         \o Separated([j \in 1..Len(v.elems) |->
                          IF v.elems[j].t = "int"
                          THEN <<ToString(v.elems[j].n)>>
                          ELSE Quoted(v.elems[j].s)], <<", ">>)
         \o <<"]">>

\* the plain text of a scalar
PlainText(v) ==
    CASE v.t = "int" -> ToString(v.n)
      [] v.t = "bool" -> (IF v.b THEN "True" ELSE "False")
      [] v.t = "str" -> v.s

\* C21: in format_function_call a mapping or sequence argument value is
\* rendered by JSON encoding and then escape-wrapped as one opaque string
\* with no nested escaping (data:<escape>{"key": "value"}<escape>), and a
\* scalar value is rendered by its plain text inside one escape pair.
C21_CompositeValues ==
    CallReturned =>
        /\ Len(Wrapped(eret.text)) = Len(ecall.arguments)
        /\ \A j \in 1..Len(ecall.arguments) :
              LET v == ecall.arguments[j][2]
                  rendered == Wrapped(eret.text)[j]
              IN  /\ Count(ESC, rendered) = 0
                  /\ rendered = IF v.t \in {"dict", "list"}
                                THEN JsonText(v)
                                ELSE <<PlainText(v)>>
                  /\ Contains(eret.text,
                              <<ecall.arguments[j][1], ":", ESC>>
                              \o rendered \o <<ESC>>)

\* a call with a mapping argument and a sequence argument has returned
C21_Witness ==
    /\ CallReturned
    /\ Len(ecall.arguments) = 2
    /\ ecall.arguments[1][2].t = "dict"
    /\ ecall.arguments[2][2].t = "list"

(***************************************************************************)
(* Properties of the text of a sample                                      *)
(***************************************************************************)
\* generate_training_sample has just returned a sample
SampleReturned == dk >= 1 /\ last_sample.kind = "sample"

\* the encoding of the k-th expected call of the last example
CallEncoding(k) ==
    LET tc == LastExample.expectedToolCalls[k]
    IN  format_function_call(tc.name, tc.arguments)

\* the number of places of text at which sub stands
Occurrences(text, sub) ==
    Cardinality({i \in 1..(Len(text) - Len(sub) + 1) :
                    SubSeq(text, i, i + Len(sub) - 1) = sub})

\* C22 as claimed: for every example with a non-empty expectedToolCalls
\* the text of the sample contains the encoding of expectedToolCalls[0]
\* exactly once and contains no encoding of a later call.
C22_FirstCallOnce ==
    SampleReturned =>
        /\ Occurrences(last_sample.text, CallEncoding(1)) = 1
        /\ \A k \in 2..Len(LastExample.expectedToolCalls) :
              Occurrences(last_sample.text, CallEncoding(k)) = 0

\* C22 amended: the model turn of the sample is exactly the encoding of
\* expectedToolCalls[0]; outside the model turn the text contains the
\* encoding of an expected call only where the fixed preamble of the
\* developer turn holds that very call (call:name{arg:val} and
\* call:calculate{expression:5*12}); in the scenario (calculate with
\* expression '5 * 12') the text contains the call exactly once.
C22_FirstCallInModelTurn ==
    SampleReturned =>
        /\ EndsWith(last_sample.text,
                    <<"<start_of_turn>", "model", NL>> \o CallEncoding(1)
                        \o <<"<end_of_turn>">>)
        /\ \A k \in 1..Len(LastExample.expectedToolCalls) :
              Occurrences(last_sample.text, CallEncoding(k)) =
                  Occurrences(Preamble, CallEncoding(k))
                  + (IF CallEncoding(k) = CallEncoding(1) THEN 1 ELSE 0)
        /\ LastExample = E_calculate =>
              Occurrences(last_sample.text, CallEncoding(1)) = 1

\* an example with two expected calls has given a sample
C22_Witness ==
    SampleReturned /\ LastExample = E_two_calls

\* the turns of text are those of roles, in that order
TurnsAre(text, roles) ==
    LET starts == {i \in 1..(Len(text) - 1) : text[i] = "<start_of_turn>"}
    IN  /\ Cardinality(starts) = Len(roles)
        /\ \A i \in starts :
              text[i + 1] = roles[Cardinality({j \in starts : j <= i})]

\* C23: every generated sample is one conversation with a developer turn,
\* then a user turn, then a model turn, in that order; the developer turn
\* contains the declaration of every tool of the tool list, in list
\* order, one per line; the user turn contains the example's userQuery
\* verbatim.
C23_Conversation ==
    SampleReturned =>
        LET text == last_sample.text
            declarations ==
                Separated([j \in 1..Len(dargs.tools) |->
                              format_tool_declaration(dargs.tools[j])],
                          <<NL>>)
        IN  /\ StartsWith(text, <<"<bos>", "<start_of_turn>", "developer", NL>>)
            /\ TurnsAre(text, <<"developer", "user", "model">>)
            /\ Count("<bos>", text) = 1
            /\ Count("<end_of_turn>", text) = 3
            /\ EndsWith(text, <<"<end_of_turn>">>)
            /\ Contains(text,
                        <<NL>> \o declarations
                        \o <<"<end_of_turn>", NL, "<start_of_turn>", "user", NL,
                             LastExample.userQuery, "<end_of_turn>", NL,
                             "<start_of_turn>", "model", NL>>)

\* a sample has been generated with two different tools in the list
C23_Witness ==
    /\ SampleReturned
    /\ Len(dargs.tools) = 2
    /\ dargs.tools[1] # dargs.tools[2]

(***************************************************************************)
(* Properties of the export script                                         *)
(***************************************************************************)
FunctionReturned(fn) ==
    epc = "returned" /\ ecall.fn = fn /\ eret.kind = "return"

\* the function got as far as looking for the model file
LookedForModel ==
    \/ FunctionReturned("quantize_onnx")
    \/ FunctionReturned("test_onnx_inference") /\ eret.calls # <<>>

Candidates == <<"model.onnx", "onnx/model.onnx", "decoder_model.onnx">>

FirstExisting(fs) ==
    IF \E i \in 1..Len(Candidates) : has(fs, Candidates[i])
    THEN Candidates[CHOOSE i \in 1..Len(Candidates) :
                        /\ has(fs, Candidates[i])
                        /\ \A j \in 1..(i - 1) : ~has(fs, Candidates[j])]
    ELSE NoFile

\* C24: every operation of the export stage that locates the model file
\* (quantize_onnx, quantize_q4_webgpu through it, test_onnx_inference)
\* selects the first existing file among model.onnx, onnx/model.onnx and
\* decoder_model.onnx, in that order, and returns failure when none exists.
C24_FirstCandidate ==
    LookedForModel =>
        /\ eret.model_file = FirstExisting(efs)
        /\ FirstExisting(efs) = NoFile => ~eret.value

\* the library call that belongs to a quantization mode
OwnCall(quant_type) ==
    CASE quant_type = "int8" -> "quantize_dynamic QInt8"
      [] quant_type = "fp16" -> "convert_float_to_float16"
      [] quant_type = "q4" -> "quantize_dynamic QUInt4x2"
      [] quant_type = "q4-webgpu" -> "MatMul4BitsQuantizer"

\* C25: quantization dispatches over int8, fp16, q4 and q4-webgpu: once
\* the model file is found each mode makes its own quantization call first,
\* a mode outside the set makes no call and yields failure, and in mode q4
\* a failed 4-bit call is followed by the int8 call, whose outcome is then
\* the outcome of quantize_onnx; no other mode makes a second call.
C25_Dispatch ==
    FunctionReturned("quantize_onnx") =>
        /\ ecall.quant_type \notin QuantizeTypes =>
                ~eret.value /\ eret.calls = <<>>
        /\ ecall.quant_type \in QuantizeTypes /\ eret.model_file # NoFile =>
                /\ eret.calls # <<>>
                /\ Head(eret.calls) = OwnCall(ecall.quant_type)
                /\ IF ecall.quant_type = "q4" /\ ~ecall.lib_ok
                   THEN /\ eret.calls = <<OwnCall("q4"), OwnCall("int8")>>
                        /\ eret.value = ecall.fallback_ok
                   ELSE /\ Len(eret.calls) = 1
                        /\ eret.value = ecall.lib_ok

\* the 4-bit call failed and the int8 call after it made quantize_onnx
\* succeed
C25_Witness ==
    /\ FunctionReturned("quantize_onnx")
    /\ ecall.quant_type = "q4"
    /\ ~ecall.lib_ok
    /\ eret.value
    /\ eret.calls = <<"quantize_dynamic QUInt4x2", "quantize_dynamic QInt8">>

\* C26: prepare_for_browser returns success whenever none of its file
\* operations raises, also when config.json, tokenizer.json,
\* tokenizer_config.json or onnx/model.onnx is missing in the end; and the
\* exit code of the export script is decided by the input check, the
\* export, the quantization and the node test alone, never by the result
\* of prepare_for_browser.
C26_PrepareNeverFails ==
    /\ FunctionReturned("prepare_for_browser") =>
            /\ ecall.before["config.json"] # "not json" => eret.value
            /\ eret.missing # {} => eret.value
    /\ xpc = "exited" =>
            xexit = IF \/ xlog = <<>>
                       \/ xres["export"] = "fail"
                       \/ xres["quantize"] = "fail"
                       \/ xres["node"] = "fail"
                    THEN 1 ELSE 0

\* prepare_for_browser returned success on a directory where three of the
\* required files are missing
C26_Witness ==
    /\ FunctionReturned("prepare_for_browser")
    /\ eret.value
    /\ {"config.json", "tokenizer.json", "onnx/model.onnx"} \subseteq eret.missing

\* the reference file that prepare_for_browser copies over a tokenizer file
Reference(f) == IF f = "tokenizer_config.json" THEN REF_CONFIG ELSE REF_MODEL

\* C27 (as stated): prepare_for_browser copies tokenizer_config.json and
\* tokenizer.model from the reference location only if the model directory
\* does not already contain the file; a tokenizer file already present in
\* the model directory is left unchanged.
C27_CopyOnlyIfAbsent ==
    FunctionReturned("prepare_for_browser") =>
        \A f \in {"tokenizer_config.json", "tokenizer.model"} :
            has(ecall.before, f) => efs[f] = ecall.before[f]

\* C27 (amended): prepare_for_browser copies tokenizer_config.json and
\* tokenizer.model from the reference location whenever the reference
\* file exists, replacing a file of that name already in the model
\* directory; the file in the model directory is left as it was exactly
\* when its reference file does not exist.
C27_CopiesReference ==
    FunctionReturned("prepare_for_browser") =>
        \A f \in {"tokenizer_config.json", "tokenizer.model"} :
            efs[f] = IF has(ecall.before, Reference(f))
                     THEN ecall.before[Reference(f)]
                     ELSE ecall.before[f]

\* prepare_for_browser ran on a directory that had its own
\* tokenizer_config.json and tokenizer.model, with both reference files
\* there, and replaced both
C27_Witness ==
    /\ FunctionReturned("prepare_for_browser")
    /\ \A f \in {"tokenizer_config.json", "tokenizer.model"} :
            /\ ecall.before[f] = "exported"
            /\ has(ecall.before, Reference(f))
            /\ efs[f] = "reference"

(***************************************************************************)
(* Properties of the MLC export script                                     *)
(***************************************************************************)
\* C28: in the MLC export script a convert_weight or gen_config command
\* that exits non-zero makes the script exit 1, and after a failed
\* convert_weight gen_config is never run; a compile that fails (non-zero
\* exit) or cannot be run (no emcc) still ends the script with exit code 0.
C28_MlcExit ==
    /\ mres["convert_weight"] = "exit non-zero" =>
            /\ mpc = "exited" /\ mexit = 1
            /\ Count("gen_config", mlog) = 0
            /\ mres["gen_config"] = "none"
    /\ mres["gen_config"] = "exit non-zero" => mpc = "exited" /\ mexit = 1
    /\ mres["compile"] \in {"exit non-zero", "no emcc"} =>
            mpc = "exited" /\ mexit = 0

\* the compile command was run and failed after both conversions went well
C28_Witness ==
    /\ mpc = "exited"
    /\ mlog = <<"convert_weight", "gen_config", "compile">>
    /\ mres["compile"] = "exit non-zero"
    /\ mexit = 0

(***************************************************************************)
(* Properties of the stage verdicts                                        *)
(***************************************************************************)
\* C29: whenever a running stage of the orchestrator gets its verdict, the
\* verdict is Succeeded if and only if the stage's external invocation
\* exited with code 0, and Failed otherwise, for the stages run with
\* check=True and for the gate stages run with check=False alike.
C29_VerdictIsExitCode ==
    [][\A n \in Stages :
        status[n] = "Running" /\ status'[n] # "Running" =>
            /\ n = idx
            /\ ChildExited
            /\ status'[n] = IF returncode = 0 THEN "Succeeded" ELSE "Failed"]_vars

\* a gate stage has failed on a non-zero exit code of its test program
C29_Witness ==
    /\ status[3] = "Failed"
    /\ rc # 0
    /\ pc = "done"

(***************************************************************************)
(* Properties of main of the export script                                 *)
(***************************************************************************)
XOrder == <<"export", "test", "quantize", "test_quant", "prepare", "node">>
XRank(step) == CHOOSE i \in 1..Len(XOrder) : XOrder[i] = step

\* C30: the export script invokes its sub-steps in the order export, test,
\* quantize, test-quantized, browser-normalize, node-test, each at most
\* once; after a failed export nothing else is invoked and the exit code
\* is 1; after a failed requested quantization no test of the quantized
\* model, no browser-normalize and no node test is invoked and the exit
\* code is 1.
C30_SubStepOrder ==
    /\ \A i, j \in 1..Len(xlog) : i < j => XRank(xlog[i]) < XRank(xlog[j])
    /\ xlog # <<>> => xlog[1] = "export"
    /\ xres["export"] = "fail" =>
            xlog = <<"export">> /\ xpc = "exited" /\ xexit = 1
    /\ xres["quantize"] = "fail" =>
            /\ \A step \in {"test_quant", "prepare", "node"} :
                    Count(step, xlog) = 0
            /\ xpc = "exited" /\ xexit = 1

\* the quantization failed in a run that was asked to test, to normalize
\* for the browser and to run the node test
C30_Witness ==
    /\ xargs.prepare_browser /\ xargs.test_node /\ ~xargs.no_test
    /\ xlog = <<"export", "test", "quantize">>
    /\ xres["quantize"] = "fail"
    /\ xpc = "exited"

\* the directory the claim names for browser-normalize and the node test
ClaimedTarget ==
    IF xargs.quantize THEN quant_output(xargs) ELSE xargs.output

\* C31: in the export script browser-normalize and the node test are
\* called on the quantized output directory if and only if quantization
\* was requested (it has then succeeded), and on the export output
\* directory otherwise; and when quantization was requested, the
\* browser-normalize step leaves the unquantized export directory as it
\* was.
C31_FinalModelPath ==
    /\ [](\A step \in {"prepare", "node"} :
            xon[step] # NoPath =>
                /\ xon[step] = ClaimedTarget
                /\ xargs.quantize <=> xres["quantize"] = "pass"
                /\ xargs.quantize <=> xon[step] = xon["quantize"])
    /\ [][xpc = "prepare" /\ xargs.quantize =>
            art'[xargs.output] = art[xargs.output]]_vars

\* browser-normalize and the node test ran after a quantization into a
\* directory of its own
C31_Witness ==
    /\ xargs.quantize
    /\ xon["prepare"] = quant_output(xargs)
    /\ xon["node"] = quant_output(xargs)
    /\ xon["prepare"] # xargs.output
    /\ xpc = "exited"

(***************************************************************************)
(* Properties of the orchestrator and its export stages                    *)
(***************************************************************************)
\* C32: when the orchestrator has run with quantization enabled and the
\* ONNX export not skipped, the quantized-model path of its final summary
\* is the directory the export script was given to write the quantized
\* model into, its default <output>-<quantize-type> for the type passed.
C32_QuantizedPath ==
    pc = "done" /\ exit_code = 0 /\ args.quantize /\ ~args.skip_onnx =>
        /\ summary.quantized = xon["quantize"]
        /\ summary.quantized = WithSuffix(xargs.output, xargs.quantize_type)

\* the stage that makes what a gate tests
Producer(gate) == gate - 1

\* C33: a gate stage is executed only in a run in which the stage that
\* produces its artifact was executed and succeeded: Test Adapters only
\* after Train Adapters, Test Fused only after Fuse Model, whatever the
\* skip flags are.
C33_GateAfterProducer ==
    \A gate \in Gates :
        Started(gate) \/ Count(gate, invoked) > 0 =>
            /\ status[Producer(gate)] = "Succeeded"
            /\ Count(Producer(gate), invoked) = 1
            /\ ~skip(Producer(gate), args)

\* the fused-model gate is running in a run that skipped the data stage
C33_Witness ==
    /\ status[5] = "Running"
    /\ status[4] = "Succeeded"
    /\ args.skip_data

\* the orchestrator has recorded stage n as Failed and stopped there
FailedAndStopped(n) ==
    /\ status[n] = "Failed"
    /\ pc = "done" /\ exit_code = 1
    /\ failed_at = StageNames[n]
    /\ \A m \in Stages : m > n => status[m] = "Pending" /\ Count(m, invoked) = 0

\* C34: an export stage that runs while the fused-model directory does
\* not exist has its script exit with code 1 before any external
\* conversion is issued, and the orchestrator records that stage as
\* Failed and stops.
C34_MissingFusedModel ==
    /\ xpc \notin {"idle", "validate"} /\ ~exists(xargs.input) =>
            /\ xpc = "exited" /\ xexit = 1
            /\ xlog = <<>> /\ xon = XNoOn
            /\ status[6] = "Running" \/ FailedAndStopped(6)
    /\ mpc \notin {"idle", "validate"} /\ ~exists(margs.input) =>
            /\ mpc = "exited" /\ mexit = 1
            /\ mlog = <<>> /\ mres = MNoRes
            /\ status[7] = "Running" \/ FailedAndStopped(7)

\* the ONNX export stage failed on a missing fused model in a run that
\* skipped training and fusing
C34_Witness ==
    /\ args.skip_training
    /\ ~exists(args.fused_dir)
    /\ xargs.input = args.fused_dir
    /\ xpc = "exited" /\ xlog = <<>>
    /\ FailedAndStopped(6)

(***************************************************************************)
(* Properties of prepare_for_browser applied twice                         *)
(***************************************************************************)
PreparedTwice == epc = "returned" /\ ecall.fn = "prepare_for_browser again"

\* the second application left the directory as the first one had left it
SameAsOnce ==
    /\ efs = ecall.once
    /\ ~has(efs, "model.onnx")
    /\ has(ecall.before, "model.onnx") \/ has(ecall.before, "onnx/model.onnx")
            => has(efs, "onnx/model.onnx")
    /\ efs["config.json"] \notin {"transformers.js_config", "use_cache false"}

\* C35 (as stated): prepare_for_browser applied twice to a model directory
\* leaves the directory as one application leaves it (model file at
\* onnx/model.onnx, stripped key absent, use_cache true), and both
\* applications return success.
C35_IdempotentSuccess ==
    PreparedTwice => SameAsOnce /\ ecall.first.value /\ eret.value

\* C35 (amended): prepare_for_browser applied twice leaves the directory
\* as one application leaves it, and the two applications return the same
\* result: success, unless a file operation raises (a config.json that is
\* not JSON), in which case both return failure.
C35_Idempotent ==
    PreparedTwice =>
        /\ SameAsOnce
        /\ eret = ecall.first
        /\ eret.value <=> ecall.before["config.json"] # "not json"

\* the first application moved the model file, replaced the tokenizer
\* config and stripped the config key, and a second one followed
C35_Witness ==
    /\ PreparedTwice
    /\ has(ecall.before, "model.onnx")
    /\ ecall.before["tokenizer_config.json"] = "exported"
    /\ has(ecall.before, REF_CONFIG)
    /\ ecall.before["config.json"] = "transformers.js_config"
    /\ ecall.once # ecall.before
    /\ eret.value

(***************************************************************************)
(* Termination of the orchestrator                                         *)
(***************************************************************************)
\* main has returned: "Pipeline Complete" with 0, or failed at a named
\* stage with 1
Terminal ==
    /\ pc = "done"
    /\ \/ /\ exit_code = 0 /\ failed_at = ""
          /\ \A n \in Stages : status[n] \in {"Succeeded", "Skipped"}
       \/ /\ exit_code = 1
          /\ \E n \in Stages :
                /\ failed_at = StageNames[n]
                /\ status[n] = "Failed"
                /\ \A m \in Stages :
                      /\ m < n => status[m] \in {"Succeeded", "Skipped"}
                      /\ m > n => status[m] = "Pending"

\* C36 (termination): when every external invocation returns, every run
\* of the orchestrator reaches a terminal state, Pipeline Complete with
\* exit code 0 or failed at a named stage with exit code 1, in one pass
\* over the stage list (the loop index never goes back and no stage is
\* invoked twice), with every stage Succeeded, Failed, Skipped or, after
\* the failed stage, still Pending.
C36_Termination ==
    /\ <>Terminal
    /\ [](pc = "done" => Terminal)
    /\ [][/\ idx' >= idx
          /\ \A n \in Stages : Count(n, invoked') <= 1
          /\ pc = "done" => pc' = "done"]_vars

\* a run ended at the failed fuse stage with later stages never reached
C36_Witness ==
    /\ Terminal
    /\ status[4] = "Failed"
    /\ status[7] = "Pending"
    /\ ~args.skip_mlc

(***************************************************************************)
(* Properties of the split at its edges                                    *)
(***************************************************************************)
\* n * x < 1 for an int n and a double x, in exact arithmetic: the exact
\* product has no bit at or above 2^0
BelowOne(n, x) ==
    LET limb == 2^18
        pb0 == n * x.b + (n * x.c) \div limb
        pa0 == n * x.a + pb0 \div limb
    IN  pa0 < 2^(x.s - 36)

\* C37: for N >= 1 samples and a train fraction 0 < f < 1 the validation
\* partition is not empty, the train partition is empty exactly when
\* N * f < 1, and in both cases both output files are written and the
\* builder exits 0.
C37_Partitions ==
    /\ (SplitDone /\ Len(training_data) >= 1) =>
            /\ Len(valid_data) >= 1
            /\ Len(train_data) = 0 <=>
                    BelowOne(Len(training_data), dargs.train_split)
    /\ (dpc \in {"exited", "crashed"} /\ Len(training_data) >= 1) =>
            /\ dpc = "exited" /\ dexit = 0
            /\ dfiles.train = [j \in 1..Len(train_data) |->
                                  json_line(train_data[j])]
            /\ dfiles.valid = [j \in 1..Len(valid_data) |->
                                  json_line(valid_data[j])]
====
